---- MODULE Spec2Model ----
(***************************************************************************)
(* Model of the Poisson solver of src/src/jacobi_solver.cpp: the serial,   *)
(* shared-memory, distributed, hybrid and direct-per-subdomain solves.     *)
(*                                                                         *)
(* Numbers.  A field value is an integer number of units; one whole is     *)
(* Scale units, with Scale = 4^MaxIter * (n-1)^2, so that every Jacobi      *)
(* update 0.25 * (sum + h*h*f) of the explored runs is exact.  A residual   *)
(* sqrt(1/(n-1) * error) is represented by its accumulated sum of squares  *)
(* `error`; the variable tol holds (n-1)*tol^2 in squared units, so that    *)
(* the test residual < tol of the code is the test error < tol here (sqrt  *)
(* and the positive factor are monotone, hence also commute with max).     *)
(***************************************************************************)
EXTENDS Integers, Sequences, FiniteSets, TLC

\* Bounds of the exploration.
MaxN == 4
MaxP == 3
MaxIter == 2
MaxUnknowns == 4
MaxDirectP == 2

\* num_threads(2) of the parallel regions.
NumThreads == 2

VARIABLES
    mode,            \* which solve_* is called
    n,               \* grid dimension
    mpi_size,        \* number of ranks
    max_iter,        \* iteration limit
    tol,             \* tolerance, as (n-1)*tol^2 in squared units
    buffered,        \* TRUE: MPI_Send completes by buffering; FALSE: rendezvous
    initialized,     \* what MPI_Initialized reports
    uex,             \* the exact solution: <<callable>>, or <<>> for nullptr
    f, top_bc, right_bc, bottom_bc, left_bc,   \* the callables
    initial_guess,   \* the field given to set_initial_guess
    uh,              \* uh[r]: the n*n field of the solver object of rank r
    previous,        \* scratch of solve_serial / solve_omp
    iter,            \* iter[r]
    warned,          \* warned[r]: number of max-iterations warnings printed
    pc,              \* pc[r]: position of rank r in the solve
    iteration,       \* iteration[r][t]: loop counter of worker t of rank r
    converged,       \* converged[r]
    start_idxs,      \* start_idxs[r]: rank r's copy of the offsets array
    local_uh,        \* local_uh[r]
    local_previous,  \* local_previous[r]
    local_residual,  \* local_residual[r]
    global_residual, \* global_residual[r]
    chan,            \* chan[<<s, d>>]: rows sent by s to d, not yet received
    res_hist,        \* res_hist[r]: residuals rank r has decided on, in order
    dec_hist,        \* dec_hist[r]: the decisions (converged) taken, in order
    L2_error,        \* L2_error[r], as its sum of squares; -1 for -1.0
    l2_call,         \* l2_call[r]: <<>> or what the last l2_error() returned and logged
    diagnosed,       \* diagnosed[r]: "MPI is not initialized" errors printed
    tpc,             \* tpc[t]: position of worker t in the parallel region
    claimed,         \* the single construct the team is at has an executor
    todo,            \* todo[t]: cells of worker t's tile not yet updated
    sweep_start,     \* the iterate when the team entered the iteration
    prev_writers,    \* workers that have written u_prev in the iteration
    counts,          \* counts[i]: the root's counts array, entry by entry
    start_idx,       \* the root's auxiliary index
    layout_i         \* the root's loop variable i over the middle ranks

vars == <<mode, n, mpi_size, max_iter, tol, buffered, f, top_bc, right_bc,
          bottom_bc, left_bc, initial_guess, uh, previous, iter, warned, pc, iteration,
          converged, start_idxs, local_uh, local_previous, local_residual,
          global_residual, chan, res_hist, dec_hist, initialized, uex,
          L2_error, l2_call, diagnosed, tpc, claimed, todo, sweep_start,
          prev_writers, counts, start_idx, layout_i>>

\* The workers of one parallel region, followed one by one in TeamSpec only.
team == <<tpc, claimed, todo, sweep_start, prev_writers>>

\* The root's pass over the counts and offsets, followed entry by entry in
\* LayoutSpec only.
layout == <<counts, start_idx, layout_i>>

\* What no step of a solve changes: the inputs, and the workers' positions
\* and the root's pass over the layout, which Spec does not follow (there a
\* pass of the team is one step, and so is the computation of the layout).
config == <<mode, n, mpi_size, max_iter, tol, buffered, f, top_bc, right_bc,
            bottom_bc, left_bc, initial_guess, initialized, uex, team, layout>>

\* What the object keeps of its l2_error() calls.
measured == <<L2_error, l2_call>>

Modes == {"serial", "omp", "mpi", "hybrid", "direct"}
DistributedModes == {"mpi", "hybrid", "direct"}
TeamModes == {"omp", "hybrid"}

Ranks == 0 .. (mpi_size - 1)
Threads == 0 .. (NumThreads - 1)
\* The workers that run the loop: the team of the parallel region, or the
\* calling thread alone.
Team == IF mode \in TeamModes THEN Threads ELSE {0}

Scale == (4 ^ MaxIter) * (n - 1) * (n - 1)

(***************************************************************************)
(* Callables.  A callable is c0 + cx*(n-1)*x + cy*(n-1)*y, whole-valued at  *)
(* the grid coordinates x = a/(n-1), y = b/(n-1).                           *)
(***************************************************************************)
Callable(c0, cx, cy) == [c0 |-> c0, cx |-> cx, cy |-> cy]
Call(fun, a, b) == (fun.c0 + fun.cx * a + fun.cy * b) * Scale

\* fun_at(fun, i, j): fun(i/(n-1), j/(n-1)).
fun_at(fun, i, j) == Call(fun, i, j)
\* The range check of fun_at (throws std::out_of_range otherwise).
fun_at_ok(i, j) == i >= 0 /\ i < n /\ j >= 0 /\ j < n

\* h * h * fun_at(f, i, j)
SourceTerm(i, j) == fun_at(f, i, j) \div ((n - 1) * (n - 1))

Zeros(len) == [k \in 0 .. (len - 1) |-> 0]

(***************************************************************************)
(* Boundary assignment.                                                    *)
(***************************************************************************)
\* A faulty pass that adds the boundary values to the cells.
BoundaryPassSerialAdd(u, i) ==
    LET u1 == [u EXCEPT ![i] = @ + fun_at(top_bc, i, n - 1)]
        u2 == [u1 EXCEPT ![i * n + (n - 1)] = @ + fun_at(right_bc, n - 1, i)]
        u3 == [u2 EXCEPT ![(n - 1) * n + i] = @ + fun_at(bottom_bc, i, 0)]
    IN  [u3 EXCEPT ![i * n] = @ + fun_at(left_bc, 0, i)]

\* One pass of the loop of solve_serial / solve_omp.
BoundaryPassSerial(u, i) ==
    LET u1 == [u EXCEPT ![i] = fun_at(top_bc, i, n - 1)]
        u2 == [u1 EXCEPT ![i * n + (n - 1)] = fun_at(right_bc, n - 1, i)]
        u3 == [u2 EXCEPT ![(n - 1) * n + i] = fun_at(bottom_bc, i, 0)]
    IN  [u3 EXCEPT ![i * n] = fun_at(left_bc, 0, i)]

\* One pass of the loop of solve_mpi / solve_direct.
BoundaryPassMpi(u, i) ==
    LET u1 == [u EXCEPT ![i] = fun_at(top_bc, 0, i)]
        u2 == [u1 EXCEPT ![i * n + (n - 1)] = fun_at(right_bc, i, n - 1)]
        u3 == [u2 EXCEPT ![(n - 1) * n + i] = fun_at(bottom_bc, n - 1, i)]
    IN  [u3 EXCEPT ![i * n] = fun_at(left_bc, i, 0)]

RECURSIVE BoundaryLoopSerial(_, _)
BoundaryLoopSerial(u, i) ==
    IF i >= n THEN u ELSE BoundaryLoopSerial(BoundaryPassSerial(u, i), i + 1)

RECURSIVE BoundaryLoopMpi(_, _)
BoundaryLoopMpi(u, i) ==
    IF i >= n THEN u ELSE BoundaryLoopMpi(BoundaryPassMpi(u, i), i + 1)

\* A faulty start in which every rank of solve_mpi and solve_direct assigns
\* the boundary to its global field.
ApplyBoundaryEveryRank(r, u) ==
    CASE mode \in {"serial", "omp"} -> BoundaryLoopSerial(u, 0)
      [] mode \in {"mpi", "direct"} -> BoundaryLoopMpi(u, 0)
      [] mode = "hybrid" -> u

\* What the called solve does to rank r's global field before it starts.
ApplyBoundary(r, u) ==
    CASE mode \in {"serial", "omp"} -> BoundaryLoopSerial(u, 0)
      [] mode \in {"mpi", "direct"} -> IF r = 0 THEN BoundaryLoopMpi(u, 0) ELSE u
      [] mode = "hybrid" -> u

(***************************************************************************)
(* Row partition and scatter layout.                                       *)
(***************************************************************************)
count == n \div mpi_size

\* A faulty remainder that leaves the last rank out of the product.
RemainderOneRankShort == n - count * (mpi_size - 1)

remainder == n - count * mpi_size

\* Faulty counts that give every rank two halo rows.
CountsTwoHalos(i) ==
    IF mpi_size > 1
    THEN (IF i < remainder THEN count + 1 + 2 ELSE count + 2) * n
    ELSE n * n

\* counts[i] as the root computes it.
Counts(i) ==
    IF mpi_size > 1
    THEN IF i = 0 \/ i = mpi_size - 1
         THEN (IF i < remainder THEN count + 1 + 1 ELSE count + 1) * n
         ELSE (IF i < remainder THEN count + 1 + 2 ELSE count + 2) * n
    ELSE n * n

\* Faulty offsets that advance by all rows of the previous slice but one.
StartIdxOneRowBack(i) ==
    LET start[k \in 0 .. i] ==
            IF k = 0 THEN 0 ELSE start[k - 1] + Counts(k - 1) - n
    IN  start[i]

\* start_idxs[i] as the root computes it (the running start_idx).
RECURSIVE StartIdx(_)
StartIdx(i) ==
    IF i = 0 THEN 0 ELSE StartIdx(i - 1) + Counts(i - 1) - 2 * n

\* local_rows of rank r.
local_rows(r) ==
    IF mpi_size > 1
    THEN (IF r < remainder THEN count + 1 ELSE count)
         + (IF r = 0 \/ r = mpi_size - 1 THEN 1 ELSE 2)
    ELSE n

(***************************************************************************)
(* Kernel.                                                                 *)
(***************************************************************************)
\* The collapse(2) static schedule: flat iteration q of the (rows-2)*(n-2)
\* loop nest goes to chunk q \div chunk_size, chunks are dealt round-robin.
ChunkSize(rows) == (rows * n) \div NumThreads
TileOwner(rows, q) == (q \div ChunkSize(rows)) % NumThreads

\* A faulty schedule in which a worker repeats the chunks of the workers
\* before it.
TileWithEarlier(rows, t) ==
    { (1 + (q \div (n - 2))) * n + (1 + (q % (n - 2))) :
        q \in { w \in 0 .. ((rows - 2) * (n - 2) - 1) : TileOwner(rows, w) <= t } }

\* The cells worker t updates in a field of `rows` rows.
Tile(rows, t) ==
    { (1 + (q \div (n - 2))) * n + (1 + (q % (n - 2))) :
        q \in { w \in 0 .. ((rows - 2) * (n - 2) - 1) : TileOwner(rows, w) = t } }

\* A faulty loop nest that also sweeps the first column of the field.
SerialCellsFromLeft(rows) ==
    { i * n + j : i \in 1 .. (rows - 2), j \in 0 .. (n - 2) }

\* The cells of the serial loop nest over a field of `rows` rows.
SerialCells(rows) == { i * n + j : i \in 1 .. (rows - 2), j \in 1 .. (n - 2) }

\* The cells a sweep of the running mode updates.
UpdatedCells(rows) ==
    IF mode \in TeamModes
    THEN UNION { Tile(rows, t) : t \in Threads }
    ELSE SerialCells(rows)

\* A faulty update that reads the upper neighbour in place of the lower.
JacobiCellUpperTwice(prev, k, row0) ==
    (prev[k - n] + prev[k - n] + prev[k - 1] + prev[k + 1]
       + SourceTerm(row0 + (k \div n), k % n)) \div 4

\* The Jacobi update of cell k = i*n + j; row0 is the global index of row 0.
JacobiCell(prev, k, row0) ==
    (prev[k - n] + prev[k + n] + prev[k - 1] + prev[k + 1]
       + SourceTerm(row0 + (k \div n), k % n)) \div 4

\* The field after the update of `cells` from prev.
SweepOver(prev, cells, row0) ==
    [k \in DOMAIN prev |->
        IF k \in cells THEN JacobiCell(prev, k, row0) ELSE prev[k]]

\* One sweep over a field of `rows` rows.
JacobiSweep(prev, rows, row0) == SweepOver(prev, UpdatedCells(rows), row0)

\* compute_error_serial: the accumulated sum of squares.
RECURSIVE SumSquares(_, _, _, _, _)
SumSquares(sol1, sol2, rows, cols, q) ==
    IF q >= rows * cols THEN 0
    ELSE LET k == (q \div cols) * n + (q % cols)
             d == sol1[k] - sol2[k]
         IN  d * d + SumSquares(sol1, sol2, rows, cols, q + 1)

compute_error_serial(sol1, sol2, rows, cols) == SumSquares(sol1, sol2, rows, cols, 0)

\* A faulty test that also accepts a residual equal to the tolerance.
ConvergesOrEqual(residual) == residual <= tol

\* residual < tol
Converges(residual) == residual < tol

\* A faulty test that looks one iteration too late.
LastPermittedLate(it) == it = max_iter

\* iteration == max_iter - 1
LastPermitted(it) == it = max_iter - 1

\* The loop of solve_serial from counter `it` on field u, as a function:
\* the field and the iter member it leaves (iter stays 0 when no sweep
\* is made).
RECURSIVE SerialLoop(_, _)
SerialLoop(u, it) ==
    IF it >= max_iter THEN [uh |-> u, iter |-> 0]
    ELSE LET new == SweepOver(u, SerialCells(n), 0)
             residual == compute_error_serial(new, u, n, n)
         IN  IF Converges(residual) \/ LastPermitted(it)
             THEN [uh |-> new, iter |-> it + 1]
             ELSE SerialLoop(new, it + 1)

\* solve_serial on the initial guess.
solve_serial == SerialLoop(BoundaryLoopSerial(initial_guess, 0), 0)

(***************************************************************************)
(* Direct subdomain solve.                                                 *)
(***************************************************************************)
\* A faulty row origin: the local row index taken for the global one.
SourceRowLocal(r, i) == i

\* The row at which rank r evaluates f for its local row i, from the rank's
\* own copy of the offsets: start_idxs[mpi_rank] / n + i.
SourceRow(r, i) == (start_idxs[r][r] \div n) + i

working_rows(r) == local_rows(r) - 2
working_cols == n - 2
Unknowns(r) == working_rows(r) * working_cols

\* The cells of local_uh the assembly loop adds to b(idx), in the order of
\* its four else branches.
RhsCells(r, idx) ==
    LET i == idx \div working_cols
        j == idx % working_cols
    IN  (IF i > 0 THEN <<>> ELSE <<j>>)
        \o (IF i < working_rows(r) - 1 THEN <<>>
            ELSE <<(local_rows(r) - 1) * n + j>>)
        \o (IF j > 0 THEN <<>> ELSE <<i * n>>)
        \o (IF j < working_cols - 1 THEN <<>> ELSE <<i * n + (n - 1)>>)

\* A faulty assembly that reads the copy taken before the previous step,
\* where the halo rows still hold what they held then.
RhsFromPrevious(r, idx) ==
    LET i == idx \div working_cols
        j == idx % working_cols
        cells == RhsCells(r, idx)
        Sum[k \in 0 .. Len(cells)] ==
            IF k = 0 THEN 0 ELSE Sum[k - 1] + local_previous[r][cells[k]]
    IN  Sum[Len(cells)] + SourceTerm(SourceRow(r, i + 1), j + 1)

\* b(idx) after the assembly loop.
Rhs(r, idx) ==
    LET i == idx \div working_cols
        j == idx % working_cols
        cells == RhsCells(r, idx)
        Sum[k \in 0 .. Len(cells)] ==
            IF k = 0 THEN 0 ELSE Sum[k - 1] + local_uh[r][cells[k]]
    IN  Sum[Len(cells)] + SourceTerm(SourceRow(r, i + 1), j + 1)

\* A faulty assembly that couples every unknown with the next and the
\* previous one, across the ends of the strip rows.
MatrixEntryBanded(r, p, q) ==
    LET i == p \div working_cols
    IN  (IF q = p THEN 4 ELSE 0)
        + (IF i > 0 /\ q = p - working_cols THEN -1 ELSE 0)
        + (IF i < working_rows(r) - 1 /\ q = p + working_cols THEN -1 ELSE 0)
        + (IF q = p - 1 THEN -1 ELSE 0)
        + (IF q = p + 1 THEN -1 ELSE 0)

\* A(p, q) after setFromTriplets: the sum of the triplets at (p, q).
MatrixEntry(r, p, q) ==
    LET i == p \div working_cols
        j == p % working_cols
    IN  (IF q = p THEN 4 ELSE 0)
        + (IF i > 0 /\ q = p - working_cols THEN -1 ELSE 0)
        + (IF i < working_rows(r) - 1 /\ q = p + working_cols THEN -1 ELSE 0)
        + (IF j > 0 /\ q = p - 1 THEN -1 ELSE 0)
        + (IF j < working_cols - 1 /\ q = p + 1 THEN -1 ELSE 0)

RemoveAt(seq, k) == SubSeq(seq, 1, k - 1) \o SubSeq(seq, k + 1, Len(seq))

\* Determinant of the minor of mat with rows rs and columns cs (expansion
\* along the first row).
RECURSIVE Det(_, _, _)
Det(mat, rs, cs) ==
    IF Len(rs) = 0 THEN 1
    ELSE LET Term(k) ==
                 LET a == mat[rs[1]][cs[k]]
                 IN  IF a = 0 THEN 0
                     ELSE (IF k % 2 = 1 THEN a ELSE -a)
                          * Det(mat, Tail(rs), RemoveAt(cs, k))
             Sum[k \in 0 .. Len(cs)] ==
                 IF k = 0 THEN 0 ELSE Sum[k - 1] + Term(k)
         IN  Sum[Len(cs)]

RoundDiv(num, den) == (2 * num + den) \div (2 * den)

\* solver.compute(A); x = solver.solve(b): the solution of A x = b, rounded
\* to the unit.
SolveLocal(r) ==
    LET m == Unknowns(r)
        idxs == [k \in 1 .. m |-> k - 1]
        A == [p \in 0 .. (m - 1) |-> [q \in 0 .. (m - 1) |-> MatrixEntry(r, p, q)]]
        b == [p \in 0 .. (m - 1) |-> Rhs(r, p)]
        WithB(c) == [p \in 0 .. (m - 1) |->
                        [q \in 0 .. (m - 1) |-> IF q = c THEN b[p] ELSE A[p][q]]]
        d == Det(A, idxs, idxs)
    IN  [c \in 0 .. (m - 1) |-> RoundDiv(Det(WithB(c), idxs, idxs), d)]

\* x[(i - 1) * working_cols + j] of the write-back; past the end of x the
\* read yields whatever lies there.
SolutionIndex(i, j) == (i - 1) * working_cols + j
ReadSolution(x, idx, garbage) == IF idx \in DOMAIN x THEN x[idx] ELSE garbage

\* local_uh after the write-back loop.
WriteBack(r, x, garbage) ==
    [k \in DOMAIN local_uh[r] |->
        IF /\ k \div n >= 1 /\ k \div n < local_rows(r) - 1
           /\ k % n >= 1 /\ k % n < n - 1
        THEN ReadSolution(x, SolutionIndex(k \div n, k % n), garbage)
        ELSE local_uh[r][k]]

\* Values an out-of-range read may yield.
GarbageValues == {0, Scale}

\* The new local field of an outer step: a Jacobi sweep, or the local
\* solve and its write-back.
OuterStep(r, garbage) ==
    IF mode = "direct"
    THEN WriteBack(r, SolveLocal(r), garbage)
    ELSE JacobiSweep(local_uh[r], local_rows(r), SourceRow(r, 0))

(***************************************************************************)
(* Inputs.                                                                 *)
(***************************************************************************)
Const(c) == Callable(c, 0, 0)
Linear == Callable(0, 1, 1)

\* The problems explored: callables, the initial guess (a callable too,
\* evaluated at every cell), the exact solution, set or left nullptr, and
\* the constructor's L2_error argument (default -1.0).
Problems ==
    { \* zero source, zero boundary, zero guess
      [f |-> Const(0), top |-> Const(0), right |-> Const(0),
       bottom |-> Const(0), left |-> Const(0), guess |-> Const(0),
       uex |-> <<>>, l2 |-> -1],
      \* constant source, homogeneous boundary (the driver's problem)
      [f |-> Const(1), top |-> Const(0), right |-> Const(0),
       bottom |-> Const(0), left |-> Const(0), guess |-> Const(0),
       uex |-> <<Const(0)>>, l2 |-> -1],
      \* four different edges, uniform guess
      [f |-> Const(0), top |-> Const(1), right |-> Const(2),
       bottom |-> Const(3), left |-> Const(4), guess |-> Const(1),
       uex |-> <<>>, l2 |-> 1],
      \* the linear field (n-1)*(x+y): boundary and guess match it
      [f |-> Const(0), top |-> Linear, right |-> Linear,
       bottom |-> Linear, left |-> Linear, guess |-> Linear,
       uex |-> <<Linear>>, l2 |-> -1],
      \* the uniform field 2: boundary and guess match it
      [f |-> Const(0), top |-> Const(2), right |-> Const(2),
       bottom |-> Const(2), left |-> Const(2), guess |-> Const(2),
       uex |-> <<Const(2)>>, l2 |-> -1] }

GuessField(g) == [k \in 0 .. (n * n - 1) |-> Call(g, k \div n, k % n)]

\* One Jacobi step of the constant-source problem moves a cell by Step.
Step == Scale \div (4 * (n - 1) * (n - 1))
\* Tolerances: below every nonzero residual, equal to residuals that occur,
\* and above every residual.
TolChoices == {1, Step * Step, 2 * Step * Step, Scale * Scale * n * n * 64}

Init ==
    /\ mode \in Modes
    /\ n \in 3 .. MaxN
    /\ mpi_size \in 1 .. MaxP
    /\ mpi_size <= n
    /\ mode \notin DistributedModes => mpi_size = 1
    /\ mode = "direct" => mpi_size <= MaxDirectP
    /\ mode = "direct" => \A r \in Ranks : Unknowns(r) <= MaxUnknowns
    /\ max_iter \in 0 .. MaxIter
    /\ tol \in TolChoices
    /\ buffered \in BOOLEAN
    /\ mpi_size = 1 => buffered
    /\ initialized \in BOOLEAN
    /\ mode \notin DistributedModes => initialized
    /\ \E p \in Problems :
          /\ f = p.f
          /\ top_bc = p.top
          /\ right_bc = p.right
          /\ bottom_bc = p.bottom
          /\ left_bc = p.left
          /\ initial_guess = GuessField(p.guess)
          /\ uex = p.uex
          /\ L2_error = [r \in Ranks |-> p.l2]
    /\ uh = [r \in Ranks |-> initial_guess]
    /\ previous = <<>>
    /\ iter = [r \in Ranks |-> 0]
    /\ warned = [r \in Ranks |-> 0]
    /\ pc = [r \in Ranks |-> "start"]
    /\ iteration = [r \in Ranks |-> [t \in Threads |-> 0]]
    /\ converged = [r \in Ranks |-> FALSE]
    /\ start_idxs = [r \in Ranks |-> [i \in Ranks |-> 0]]
    /\ local_uh = [r \in Ranks |-> <<>>]
    /\ local_previous = [r \in Ranks |-> <<>>]
    /\ local_residual = [r \in Ranks |-> 0]
    /\ global_residual = [r \in Ranks |-> 0]
    /\ chan = [e \in Ranks \X Ranks |-> <<>>]
    /\ res_hist = [r \in Ranks |-> <<>>]
    /\ dec_hist = [r \in Ranks |-> <<>>]
    /\ l2_call = [r \in Ranks |-> <<>>]
    /\ diagnosed = [r \in Ranks |-> 0]
    /\ tpc = [t \in Threads |-> "test"]
    /\ claimed = FALSE
    /\ todo = [t \in Threads |-> {}]
    /\ sweep_start = <<>>
    /\ prev_writers = {}
    /\ counts = [r \in Ranks |-> 0]
    /\ start_idx = 0
    /\ layout_i = 0

(***************************************************************************)
(* Entry of a solve: boundary assignment, partition, scratch vectors.      *)
(***************************************************************************)
\* A faulty entry that takes the runtime for initialized.
RuntimeAssumedReady == TRUE

\* if (initialized) of the distributed solves; the other solves make no
\* such test.
RuntimeReady == mode \in DistributedModes => initialized

Start(r) ==
    /\ pc[r] = "start"
    /\ RuntimeReady
    /\ uh' = [uh EXCEPT ![r] = ApplyBoundary(r, uh[r])]
    /\ IF mode \in DistributedModes
       THEN /\ start_idxs' = [start_idxs EXCEPT ![r] =
                                IF r = 0 THEN [i \in Ranks |-> StartIdx(i)] ELSE @]
            /\ pc' = [pc EXCEPT ![r] = "bcast"]
            /\ UNCHANGED previous
       ELSE /\ previous' = Zeros(n * n)
            /\ pc' = [pc EXCEPT ![r] = "loop"]
            /\ UNCHANGED start_idxs
    /\ UNCHANGED <<config, measured, diagnosed,
                   iter, warned, iteration, converged, local_uh,
                   local_previous, local_residual, global_residual, chan,
                   res_hist, dec_hist>>

\* The else branch of if (initialized): the error message, then return.
NotInitialized(r) ==
    /\ pc[r] = "start"
    /\ ~RuntimeReady
    /\ diagnosed' = [diagnosed EXCEPT ![r] = @ + 1]
    /\ pc' = [pc EXCEPT ![r] = "refused"]
    /\ UNCHANGED <<config, measured, uh, previous, iter, warned, iteration,
                   converged, start_idxs, local_uh, local_previous,
                   local_residual, global_residual, chan, res_hist, dec_hist>>

(***************************************************************************)
(* The loop.                                                               *)
(***************************************************************************)
\* The loop counters of rank r's workers as the loop test reads them: at
\* the end of a body, after the ++iteration of the for statement.
Counters(r) ==
    IF pc[r] = "body_end"
    THEN [t \in Threads |-> IF t \in Team THEN iteration[r][t] + 1
                                          ELSE iteration[r][t]]
    ELSE iteration[r]

\* A faulty loop test that does not read the shared flag.
ContinuesByCount(r, t) == Counters(r)[t] < max_iter

\* A faulty loop test that admits one more iteration.
ContinuesOneMore(r, t) == Counters(r)[t] <= max_iter /\ ~converged[r]

\* iteration < max_iter && !converged, as worker t of rank r evaluates it.
Continues(r, t) == Counters(r)[t] < max_iter /\ ~converged[r]

\* The convergence decision of one pass, taken on `residual` by worker t of
\* rank r (the worker that executes the single region), whose team has the
\* counters `its`.
DecideUpdate(r, t, residual, its) ==
    LET conv == Converges(residual)
        last == LastPermitted(its[t])
    IN  /\ converged' = [converged EXCEPT ![r] = conv]
        /\ iter' = [iter EXCEPT ![r] = IF conv \/ last THEN its[t] + 1 ELSE @]
        /\ iteration' = [iteration EXCEPT ![r] =
                           [its EXCEPT ![t] = IF conv \/ last THEN @ + 1 ELSE @]]
        /\ warned' = [warned EXCEPT ![r] = IF ~conv /\ last THEN @ + 1 ELSE @]
        /\ res_hist' = [res_hist EXCEPT ![r] = Append(@, residual)]
        /\ dec_hist' = [dec_hist EXCEPT ![r] = Append(@, conv)]

\* Where a rank goes when its loop ends.
AfterLoop == IF mode \in DistributedModes THEN "barrier2" ELSE "done"

LoopPcs == {"loop", "body_end"}

\* The loop ends for the rank when every worker's test fails.  If only some
\* workers leave, the others wait at a barrier of the parallel region that
\* is never completed: the rank hangs.
LoopExit(r) ==
    /\ pc[r] \in LoopPcs
    /\ \E t \in Team : ~Continues(r, t)
    /\ iteration' = [iteration EXCEPT ![r] = Counters(r)]
    /\ pc' = [pc EXCEPT ![r] =
                IF \A t \in Team : ~Continues(r, t) THEN AfterLoop ELSE "hung"]
    /\ UNCHANGED <<config, measured, diagnosed,
                   uh, previous, iter, warned, converged, start_idxs,
                   local_uh, local_previous, local_residual, global_residual,
                   chan, res_hist, dec_hist>>

\* One pass of solve_serial / solve_omp: the test, the copy, the sweep, the
\* residual and the decision.
LocalPass(r) ==
    /\ pc[r] \in LoopPcs
    /\ mode \notin DistributedModes
    /\ \A t \in Team : Continues(r, t)
    /\ \E t \in Team :
         LET new == JacobiSweep(uh[r], n, 0)
         IN  /\ previous' = uh[r]
             /\ uh' = [uh EXCEPT ![r] = new]
             /\ DecideUpdate(r, t, compute_error_serial(new, uh[r], n, n),
                             Counters(r))
    /\ pc' = [pc EXCEPT ![r] = "body_end"]
    /\ UNCHANGED <<config, measured, diagnosed,
                   start_idxs, local_uh, local_previous,
                   local_residual, global_residual, chan>>

\* One pass of a distributed solve up to the barrier: the test, the copy,
\* the outer step and the local residual.
DistributedPass(r) ==
    /\ pc[r] \in LoopPcs
    /\ mode \in DistributedModes
    /\ \A t \in Team : Continues(r, t)
    /\ iteration' = [iteration EXCEPT ![r] = Counters(r)]
    /\ \E garbage \in GarbageValues :
       LET new == OuterStep(r, garbage)
       IN  /\ local_previous' = [local_previous EXCEPT ![r] = local_uh[r]]
           /\ local_uh' = [local_uh EXCEPT ![r] = new]
           /\ local_residual' = [local_residual EXCEPT ![r] =
                 compute_error_serial(new, local_uh[r], local_rows(r), n)]
    /\ pc' = [pc EXCEPT ![r] = "barrier1"]
    /\ UNCHANGED <<config, measured, diagnosed,
                   uh, previous, iter, warned, converged, start_idxs,
                   global_residual, chan, res_hist, dec_hist>>

\* Where the body goes after the exchange with the next rank.
AfterNext(r) ==
    IF mpi_size > 1 /\ r > 0 THEN "send_prev" ELSE "body_end"

\* A faulty body that leaves out the exchange with the next rank.
AfterDecideSkipNext(r) == AfterNext(r)

\* Where the body goes after the decision.
AfterDecide(r) ==
    IF mpi_size > 1 /\ r < mpi_size - 1 THEN "send_next" ELSE AfterNext(r)

(***************************************************************************)
(* Collectives.  A collective completes when every rank has entered it.    *)
(***************************************************************************)
AllAt(where) == \A r \in Ranks : pc[r] = where

\* MPI_Bcast(start_idxs, root 0)
Bcast ==
    /\ AllAt("bcast")
    /\ start_idxs' = [r \in Ranks |-> start_idxs[0]]
    /\ pc' = [r \in Ranks |-> "barrier0"]
    /\ UNCHANGED <<config, measured, diagnosed,
                   uh, previous, iter, warned, iteration,
                   converged, local_uh, local_previous, local_residual,
                   global_residual, chan, res_hist, dec_hist>>

BarrierPcs == {"barrier0", "barrier1", "barrier2"}

\* A faulty body that goes from the barrier straight into the exchange.
AfterBarrierNoReduce(where) ==
    CASE where = "barrier0" -> "scatter"
      [] where = "barrier1" -> "send_next"
      [] where = "barrier2" -> "gather"

\* The call that follows each MPI_Barrier of a distributed solve.
AfterBarrier(where) ==
    CASE where = "barrier0" -> "scatter"
      [] where = "barrier1" -> "allreduce"
      [] where = "barrier2" -> "gather"

\* MPI_Barrier: any call of it matches any other.
Barrier ==
    /\ \A r \in Ranks : pc[r] \in BarrierPcs
    /\ pc' = [r \in Ranks |-> AfterBarrier(pc[r])]
    /\ UNCHANGED <<config, measured, diagnosed,
                   uh, previous, iter, warned, iteration,
                   converged, start_idxs, local_uh, local_previous,
                   local_residual, global_residual, chan, res_hist, dec_hist>>

\* A faulty scatter whose counts leave out the last row of every slice.
ScatterSliceShort(r) ==
    [k \in 0 .. (local_rows(r) * n - 1) |->
        IF k < Counts(r) - n THEN uh[0][start_idxs[0][r] + k] ELSE 0]

\* The slice MPI_Scatterv delivers to rank r: counts[r] elements of the
\* root's field from start_idxs[r], into a zeroed vector of local_rows * n.
ScatterSlice(r) ==
    [k \in 0 .. (local_rows(r) * n - 1) |->
        IF k < Counts(r) THEN uh[0][start_idxs[0][r] + k] ELSE 0]

Scatter ==
    /\ AllAt("scatter")
    /\ local_uh' = [r \in Ranks |-> ScatterSlice(r)]
    /\ local_previous' = [r \in Ranks |-> Zeros(local_rows(r) * n)]
    /\ pc' = [r \in Ranks |-> "loop"]
    /\ UNCHANGED <<config, measured, diagnosed,
                   uh, previous, iter, warned, iteration,
                   converged, start_idxs, local_residual, global_residual,
                   chan, res_hist, dec_hist>>

RECURSIVE MaxOver(_)
MaxOver(S) ==
    LET x == CHOOSE y \in S : TRUE
    IN  IF S = {x} THEN x
        ELSE LET m == MaxOver(S \ {x}) IN IF x > m THEN x ELSE m

\* A faulty reduction that leaves every rank its own residual.
ReducedResidualOwn(r) == local_residual[r]

\* A faulty reduction with MPI_SUM.
ReducedResidualSum(r) ==
    LET sum[q \in 0 .. mpi_size] ==
            IF q = mpi_size THEN 0 ELSE local_residual[q] + sum[q + 1]
    IN  sum[0]

\* What MPI_Allreduce(..., MPI_MAX) leaves in global_residual of rank r.
ReducedResidual(r) == MaxOver({local_residual[q] : q \in Ranks})

\* The decision of every rank on `residual`, taken by the workers `who`.
RECURSIVE Decisions(_, _, _)
Decisions(residual, who, r) ==
    IF r >= mpi_size
    THEN [conv |-> <<>>, bump |-> <<>>, warn |-> <<>>]
    ELSE LET rest == Decisions(residual, who, r + 1)
             conv == Converges(residual[r])
             last == LastPermitted(iteration[r][who[r]])
         IN  [conv |-> <<conv>> \o rest.conv,
              bump |-> <<conv \/ last>> \o rest.bump,
              warn |-> <<~conv /\ last>> \o rest.warn]

\* MPI_Allreduce and, on every rank, the decision that follows it, taken
\* by the worker that executes the single region.
Allreduce ==
    /\ AllAt("allreduce")
    /\ global_residual' = [r \in Ranks |-> ReducedResidual(r)]
    /\ \E who \in [Ranks -> Team] :
         LET d == Decisions(global_residual', who, 0)
         IN  /\ converged' = [r \in Ranks |-> d.conv[r + 1]]
             /\ iter' = [r \in Ranks |->
                           IF d.bump[r + 1] THEN iteration[r][who[r]] + 1
                                            ELSE iter[r]]
             /\ iteration' = [r \in Ranks |->
                   [iteration[r] EXCEPT ![who[r]] =
                       IF d.bump[r + 1] THEN @ + 1 ELSE @]]
             /\ warned' = [r \in Ranks |->
                             IF d.warn[r + 1] THEN warned[r] + 1 ELSE warned[r]]
             /\ dec_hist' = [r \in Ranks |-> Append(dec_hist[r], d.conv[r + 1])]
    /\ res_hist' = [r \in Ranks |-> Append(res_hist[r], global_residual'[r])]
    /\ pc' = [r \in Ranks |-> AfterDecide(r)]
    /\ UNCHANGED <<config, measured, diagnosed,
                   uh, previous, start_idxs, local_uh, local_previous,
                   local_residual, chan>>

\* The root's field after the slice of rank r has been written into it.
WriteSlice(u, r) ==
    [k \in DOMAIN u |->
        IF k >= start_idxs[0][r] /\ k < start_idxs[0][r] + Counts(r)
        THEN local_uh[r][k - start_idxs[0][r]]
        ELSE u[k]]

RECURSIVE GatherWrite(_, _, _)
GatherWrite(u, order, i) ==
    IF i >= mpi_size THEN u
    ELSE GatherWrite(WriteSlice(u, order[i]), order, i + 1)

\* MPI_Gatherv: the overlapping slices land in the root's field in an
\* order the library chooses.
Gather ==
    /\ AllAt("gather")
    /\ \E order \in Permutations(Ranks) :
          uh' = [uh EXCEPT ![0] = GatherWrite(uh[0], order, 0)]
    /\ pc' = [r \in Ranks |-> "done"]
    /\ UNCHANGED <<config, measured, diagnosed,
                   previous, iter, warned, iteration, converged,
                   start_idxs, local_uh, local_previous, local_residual,
                   global_residual, chan, res_hist, dec_hist>>

(***************************************************************************)
(* Halo exchange.                                                          *)
(***************************************************************************)
\* Element offsets of the rows sent and received.
\* A faulty send of the bottom halo row instead of the last owned row.
SendNextOffsetHalo(r) == (local_rows(r) - 1) * n

SendNextOffset(r) == (local_rows(r) - 2) * n
RecvNextOffset(r) == (local_rows(r) - 1) * n

\* A faulty send of the halo row instead of the first owned row.
SendPrevOffsetHalo(r) == 0 * n

SendPrevOffset(r) == 1 * n

\* A faulty receive into the first owned row instead of the top halo row.
RecvPrevOffsetOwned(r) == 1 * n

RecvPrevOffset(r) == 0

RowAt(field, off) == [j \in 0 .. (n - 1) |-> field[off + j]]
WithRow(field, off, row) ==
    [k \in DOMAIN field |-> IF k >= off /\ k < off + n THEN row[k - off] ELSE field[k]]

\* The peer, the row sent and the place of the row received, by position.
SendPcs == {"send_next", "send_prev"}
RecvPcs == {"recv_next", "recv_prev"}
Peer(r, where) == IF where \in {"send_next", "recv_next"} THEN r + 1 ELSE r - 1
SentRow(r, where) ==
    RowAt(local_uh[r],
          IF where = "send_next" THEN SendNextOffset(r) ELSE SendPrevOffset(r))
RecvOffset(r, where) ==
    IF where = "recv_next" THEN RecvNextOffset(r) ELSE RecvPrevOffset(r)
AfterSend(where) == IF where = "send_next" THEN "recv_next" ELSE "recv_prev"
AfterRecv(r, where) == IF where = "recv_next" THEN AfterNext(r) ELSE "body_end"

\* MPI_Send.  Buffered: it returns at once and the row waits in the
\* channel.  Rendezvous: it returns once the destination has posted the
\* matching MPI_Recv, and the row goes straight into the destination's field.
Send(r) ==
    /\ pc[r] \in SendPcs
    /\ LET d == Peer(r, pc[r])
       IN  IF buffered
           THEN /\ chan' = [chan EXCEPT ![<<r, d>>] = Append(@, SentRow(r, pc[r]))]
                /\ pc' = [pc EXCEPT ![r] = AfterSend(pc[r])]
                /\ UNCHANGED local_uh
           ELSE /\ pc[d] \in RecvPcs
                /\ Peer(d, pc[d]) = r
                /\ local_uh' = [local_uh EXCEPT ![d] =
                      WithRow(@, RecvOffset(d, pc[d]), SentRow(r, pc[r]))]
                /\ pc' = [pc EXCEPT ![r] = AfterSend(pc[r]),
                                    ![d] = AfterRecv(d, pc[d])]
                /\ UNCHANGED chan
    /\ UNCHANGED <<config, measured, diagnosed,
                   uh, previous, iter, warned, iteration,
                   converged, start_idxs, local_previous, local_residual,
                   global_residual, res_hist, dec_hist>>

\* MPI_Recv taking the oldest buffered row of its source.
Recv(r) ==
    /\ pc[r] \in RecvPcs
    /\ chan[<<Peer(r, pc[r]), r>>] /= <<>>
    /\ local_uh' = [local_uh EXCEPT ![r] =
          WithRow(@, RecvOffset(r, pc[r]), Head(chan[<<Peer(r, pc[r]), r>>]))]
    /\ chan' = [chan EXCEPT ![<<Peer(r, pc[r]), r>>] = Tail(@)]
    /\ pc' = [pc EXCEPT ![r] = AfterRecv(r, pc[r])]
    /\ UNCHANGED <<config, measured, diagnosed,
                   uh, previous, iter, warned, iteration,
                   converged, start_idxs, local_previous, local_residual,
                   global_residual, res_hist, dec_hist>>

(***************************************************************************)
(* The object after a solve: l2_error() and reset().                       *)
(***************************************************************************)
\* Where a solve leaves its caller: after the gather or the loop, or after
\* the error message.
ReturnedPcs == {"done", "refused"}

\* The objects of different ranks share nothing, so their l2_error() and
\* reset() calls commute; they are explored in rank order only.
Turn(r) ==
    /\ pc[r] \in ReturnedPcs
    /\ \A q \in Ranks : q < r => pc[q] = "idle"

\* compute_error_omp against a callable: the sum of squares over rows x cols
\* (its sqrt(1/(n-1) * error) is kept as the sum).
compute_error_omp(sol1, sol2, rows, cols) ==
    LET sum[q \in 0 .. (rows * cols)] ==
            IF q = rows * cols THEN 0
            ELSE LET i == q \div cols
                     j == q % cols
                     d == sol1[i * n + j] - fun_at(sol2, i, j)
                 IN  d * d + sum[q + 1]
    IN  sum[0]

\* What l2_error() returns on the object of rank r: the error against the
\* exact solution, or -1.0 when uex is nullptr.
L2Return(r) ==
    IF uex /= <<>> THEN compute_error_omp(uh[r], uex[1], n, n) ELSE -1

\* A faulty l2_error() that stores whatever it returns.
L2StoredReturn(r) == L2Return(r)

\* What l2_error() leaves in L2_error.
L2Stored(r) == IF uex /= <<>> THEN L2Return(r) ELSE L2_error[r]

\* l2_error() on the object of rank r, once its solve has returned.
L2Error(r) ==
    /\ Turn(r)
    /\ L2_error' = [L2_error EXCEPT ![r] = L2Stored(r)]
    /\ l2_call' = [l2_call EXCEPT ![r] =
                     <<[ret |-> L2Return(r),
                        log |-> IF uex /= <<>> THEN 0 ELSE 1]>>]
    /\ UNCHANGED <<config, diagnosed, uh, previous, iter, warned, pc,
                   iteration, converged, start_idxs, local_uh, local_previous,
                   local_residual, global_residual, chan, res_hist, dec_hist>>

\* A faulty clear() that keeps the elements.
ClearNothing(u) == u

\* std::vector::clear and std::vector::resize(len, value).
Clear(u) == <<>>
Resize(u, len, value) ==
    [k \in 0 .. (len - 1) |-> IF k \in DOMAIN u THEN u[k] ELSE value]

\* reset() on the object of rank r, once its solve has returned.
Reset(r) ==
    /\ Turn(r)
    /\ iter' = [iter EXCEPT ![r] = 0]
    /\ uh' = [uh EXCEPT ![r] = Resize(Clear(uh[r]), n * n, 0)]
    /\ pc' = [pc EXCEPT ![r] = "idle"]
    /\ UNCHANGED <<config, measured, diagnosed, previous, warned, iteration,
                   converged, start_idxs, local_uh, local_previous,
                   local_residual, global_residual, chan, res_hist, dec_hist>>

Next ==
    \/ \E r \in Ranks : Start(r)
    \/ \E r \in Ranks : NotInitialized(r)
    \/ \E r \in Ranks : LoopExit(r)
    \/ \E r \in Ranks : LocalPass(r)
    \/ \E r \in Ranks : DistributedPass(r)
    \/ Bcast
    \/ Barrier
    \/ Scatter
    \/ Allreduce
    \/ Gather
    \/ \E r \in Ranks : Send(r)
    \/ \E r \in Ranks : Recv(r)
    \/ \E r \in Ranks : L2Error(r)
    \/ \E r \in Ranks : Reset(r)

Spec == Init /\ [][Next]_vars

(***************************************************************************)
(* The parallel region of solve_omp and solve_hybrid, worker by worker.    *)
(* One rank (P = 1, so that the reduce is the rank's own residual and no   *)
(* exchange is made); every worker runs the whole loop with a private      *)
(* counter, and the constructs of the body synchronise the team.           *)
(***************************************************************************)
\* The smallest grid on which the static schedule gives the second worker
\* a cell: (n-2)^2 > n*n / 2.
TeamN == 7

\* The shared fields of the region: uh and previous in solve_omp, local_uh
\* and local_previous in solve_hybrid.
TeamU == IF mode = "hybrid" THEN local_uh[0] ELSE uh[0]
TeamPrev == IF mode = "hybrid" THEN local_previous[0] ELSE previous

\* What the workers' steps never change.
TeamFrame == <<mode, n, mpi_size, max_iter, tol, buffered, f, top_bc,
               right_bc, bottom_bc, left_bc, initial_guess, initialized, uex,
               measured, diagnosed, pc, start_idxs, local_residual,
               global_residual, chan, layout>>

\* The state when the team is created: the boundary assigned (solve_omp
\* only), the scratch vector allocated, converged false.
InitTeam ==
    /\ mode \in TeamModes
    /\ n \in {MaxN, TeamN}
    /\ mpi_size = 1
    /\ max_iter \in 0 .. MaxIter
    /\ tol \in {1, Step * Step}
    /\ buffered = TRUE
    /\ initialized = TRUE
    /\ \E p \in { q \in Problems : q.top = Const(0) /\ q.guess = Const(0) } :
          /\ f = p.f
          /\ top_bc = p.top
          /\ right_bc = p.right
          /\ bottom_bc = p.bottom
          /\ left_bc = p.left
          /\ initial_guess = GuessField(p.guess)
          /\ uex = p.uex
          /\ L2_error = [r \in Ranks |-> p.l2]
    /\ uh = [r \in Ranks |-> ApplyBoundary(r, initial_guess)]
    /\ previous = IF mode = "omp" THEN Zeros(n * n) ELSE <<>>
    /\ iter = [r \in Ranks |-> 0]
    /\ warned = [r \in Ranks |-> 0]
    /\ pc = [r \in Ranks |-> "loop"]
    /\ iteration = [r \in Ranks |-> [t \in Threads |-> 0]]
    /\ converged = [r \in Ranks |-> FALSE]
    /\ start_idxs = [r \in Ranks |-> [i \in Ranks |-> 0]]
    /\ local_uh = [r \in Ranks |-> IF mode = "hybrid" THEN uh[r] ELSE <<>>]
    /\ local_previous =
          [r \in Ranks |-> IF mode = "hybrid" THEN Zeros(n * n) ELSE <<>>]
    /\ local_residual = [r \in Ranks |-> 0]
    /\ global_residual = [r \in Ranks |-> 0]
    /\ chan = [e \in Ranks \X Ranks |-> <<>>]
    /\ res_hist = [r \in Ranks |-> <<>>]
    /\ dec_hist = [r \in Ranks |-> <<>>]
    /\ l2_call = [r \in Ranks |-> <<>>]
    /\ diagnosed = [r \in Ranks |-> 0]
    /\ tpc = [t \in Threads |-> "test"]
    /\ claimed = FALSE
    /\ todo = [t \in Threads |-> {}]
    /\ sweep_start = TeamU
    /\ prev_writers = {}
    /\ counts = [r \in Ranks |-> 0]
    /\ start_idx = 0
    /\ layout_i = 0

\* iteration < max_iter && !converged, by worker t.
TeamTest(t) ==
    /\ tpc[t] = "test"
    /\ tpc' = [tpc EXCEPT ![t] = IF Continues(0, t) THEN "single_copy" ELSE "out"]
    /\ UNCHANGED <<TeamFrame, uh, previous, local_uh, local_previous, iter,
                   warned, iteration, converged, res_hist, dec_hist, claimed,
                   todo, sweep_start, prev_writers>>

\* A worker reaches a single construct: the first to come executes it, the
\* others go to the barrier at its end.
ArriveSingle(t) ==
    /\ tpc[t] \in {"single_copy", "single_residual"}
    /\ claimed' = TRUE
    /\ tpc' = [tpc EXCEPT ![t] =
                 CASE claimed /\ tpc[t] = "single_copy" -> "end_single_copy"
                   [] claimed /\ tpc[t] = "single_residual" -> "end_single_residual"
                   [] ~claimed /\ tpc[t] = "single_copy" -> "copying"
                   [] ~claimed /\ tpc[t] = "single_residual" -> "deciding"]
    /\ UNCHANGED <<TeamFrame, uh, previous, local_uh, local_previous, iter,
                   warned, iteration, converged, res_hist, dec_hist, todo,
                   sweep_start, prev_writers>>

\* std::copy(uh.begin(), uh.end(), previous.begin())
Copy(t) ==
    /\ tpc[t] = "copying"
    /\ IF mode = "hybrid"
       THEN /\ local_previous' = [local_previous EXCEPT ![0] = local_uh[0]]
            /\ UNCHANGED previous
       ELSE /\ previous' = uh[0]
            /\ UNCHANGED local_previous
    /\ prev_writers' = prev_writers \cup {t}
    /\ tpc' = [tpc EXCEPT ![t] = "end_single_copy"]
    /\ UNCHANGED <<TeamFrame, uh, local_uh, iter, warned, iteration,
                   converged, res_hist, dec_hist, claimed, todo, sweep_start>>

\* A faulty barrier that one worker alone completes.
TeamSomeAt(where) == \E t \in Threads : tpc[t] = where

\* A barrier completes when every worker of the team has reached it.
TeamAt(where) == \A t \in Threads : tpc[t] = where

\* The barriers of the body: the one at the end of each single and of the
\* omp for, and the two explicit ones.
TeamBarrierPcs == {"end_single_copy", "barrier_for", "end_for",
                   "barrier_residual", "end_single_residual"}
AfterTeamBarrier(where) ==
    CASE where = "end_single_copy" -> "barrier_for"
      [] where = "barrier_for" -> "for"
      [] where = "end_for" -> "barrier_residual"
      [] where = "barrier_residual" -> "single_residual"
      [] where = "end_single_residual" -> "test"

\* The workers leave a barrier together.  Past the barrier before the omp
\* for each worker has its tile before it; past the last barrier of the
\* body each worker executes the ++iteration of the for statement.
TeamBarrier ==
    \E where \in TeamBarrierPcs :
        /\ TeamAt(where)
        /\ tpc' = [t \in Threads |-> AfterTeamBarrier(where)]
        /\ claimed' = FALSE
        /\ todo' = IF where = "barrier_for"
                   THEN [t \in Threads |-> Tile(n, t)]
                   ELSE todo
        /\ IF where = "end_single_residual"
           THEN /\ iteration' = [iteration EXCEPT ![0] =
                                   [t \in Threads |-> iteration[0][t] + 1]]
                /\ sweep_start' = TeamU
                /\ prev_writers' = {}
           ELSE UNCHANGED <<iteration, sweep_start, prev_writers>>
        /\ UNCHANGED <<TeamFrame, uh, previous, local_uh, local_previous,
                       iter, warned, converged, res_hist, dec_hist>>

\* The next cell of the worker's tile, in the order of the loop nest.
NextCell(t) == CHOOSE k \in todo[t] : \A m \in todo[t] : k <= m

\* One cell update by worker t.
Update(t) ==
    /\ tpc[t] = "for"
    /\ todo[t] /= {}
    /\ LET k == NextCell(t)
           new == [TeamU EXCEPT ![k] = JacobiCell(TeamPrev, k, SourceRow(0, 0))]
       IN  /\ IF mode = "hybrid"
              THEN /\ local_uh' = [local_uh EXCEPT ![0] = new]
                   /\ UNCHANGED uh
              ELSE /\ uh' = [uh EXCEPT ![0] = new]
                   /\ UNCHANGED local_uh
           /\ todo' = [todo EXCEPT ![t] = @ \ {k}]
    /\ UNCHANGED <<TeamFrame, previous, local_previous, iter, warned,
                   iteration, converged, res_hist, dec_hist, tpc, claimed,
                   sweep_start, prev_writers>>

\* The worker has no cell left and waits at the end of the omp for.
FinishTile(t) ==
    /\ tpc[t] = "for"
    /\ todo[t] = {}
    /\ tpc' = [tpc EXCEPT ![t] = "end_for"]
    /\ UNCHANGED <<TeamFrame, uh, previous, local_uh, local_previous, iter,
                   warned, iteration, converged, res_hist, dec_hist, claimed,
                   todo, sweep_start, prev_writers>>

\* The residual and the decision, by the worker that executes the single.
Decide(t) ==
    /\ tpc[t] = "deciding"
    /\ DecideUpdate(0, t, compute_error_serial(TeamU, TeamPrev, n, n),
                    iteration[0])
    /\ tpc' = [tpc EXCEPT ![t] = "end_single_residual"]
    /\ UNCHANGED <<TeamFrame, uh, previous, local_uh, local_previous, claimed,
                   todo, sweep_start, prev_writers>>

NextTeam ==
    \/ \E t \in Threads : TeamTest(t)
    \/ \E t \in Threads : ArriveSingle(t)
    \/ \E t \in Threads : Copy(t)
    \/ TeamBarrier
    \/ \E t \in Threads : Update(t)
    \/ \E t \in Threads : FinishTile(t)
    \/ \E t \in Threads : Decide(t)

TeamSpec == InitTeam /\ [][NextTeam]_vars

(***************************************************************************)
(* The root's computation of counts and start_idxs in the distributed      *)
(* solves, entry by entry, for any number of ranks: nothing in the solver  *)
(* or in main compares the number of ranks with n.                         *)
(***************************************************************************)
\* The largest number of ranks the layout is followed for.
MaxLayoutP == 5

\* What the root's pass over the layout never changes.
LayoutFrame == <<mode, n, mpi_size, max_iter, tol, buffered, f, top_bc,
                 right_bc, bottom_bc, left_bc, initial_guess, initialized,
                 uex, measured, diagnosed, uh, previous, iter, warned,
                 iteration, converged, local_uh, local_previous,
                 local_residual, global_residual, chan, res_hist, dec_hist,
                 team>>

\* The state when the root enters if (mpi_rank == 0): counts and start_idxs
\* are vectors of mpi_size zeros, start_idx is 0; the other ranks skip the
\* block and wait in the broadcast.
InitLayout ==
    /\ mode \in DistributedModes
    /\ n \in 3 .. MaxN
    /\ mpi_size \in 1 .. MaxLayoutP
    /\ max_iter = MaxIter
    /\ tol = 1
    /\ buffered = TRUE
    /\ initialized = TRUE
    /\ \E p \in { q \in Problems : q.top = Const(0) /\ q.guess = Const(0) } :
          /\ f = p.f
          /\ top_bc = p.top
          /\ right_bc = p.right
          /\ bottom_bc = p.bottom
          /\ left_bc = p.left
          /\ initial_guess = GuessField(p.guess)
          /\ uex = p.uex
          /\ L2_error = [r \in Ranks |-> p.l2]
    /\ uh = [r \in Ranks |-> ApplyBoundary(r, initial_guess)]
    /\ previous = <<>>
    /\ iter = [r \in Ranks |-> 0]
    /\ warned = [r \in Ranks |-> 0]
    /\ pc = [r \in Ranks |-> IF r = 0 THEN "layout" ELSE "bcast"]
    /\ iteration = [r \in Ranks |-> [t \in Threads |-> 0]]
    /\ converged = [r \in Ranks |-> FALSE]
    /\ start_idxs = [r \in Ranks |-> [i \in Ranks |-> 0]]
    /\ local_uh = [r \in Ranks |-> <<>>]
    /\ local_previous = [r \in Ranks |-> <<>>]
    /\ local_residual = [r \in Ranks |-> 0]
    /\ global_residual = [r \in Ranks |-> 0]
    /\ chan = [e \in Ranks \X Ranks |-> <<>>]
    /\ res_hist = [r \in Ranks |-> <<>>]
    /\ dec_hist = [r \in Ranks |-> <<>>]
    /\ l2_call = [r \in Ranks |-> <<>>]
    /\ diagnosed = [r \in Ranks |-> 0]
    /\ tpc = [t \in Threads |-> "test"]
    /\ claimed = FALSE
    /\ todo = [t \in Threads |-> {}]
    /\ sweep_start = <<>>
    /\ prev_writers = {}
    /\ counts = [r \in Ranks |-> 0]
    /\ start_idx = 0
    /\ layout_i = 0

\* The else branch of if (mpi_size > 1): one process, all data.
LayoutAlone ==
    /\ pc[0] = "layout"
    /\ ~(mpi_size > 1)
    /\ counts' = [counts EXCEPT ![0] = n * n]
    /\ start_idxs' = [start_idxs EXCEPT ![0][0] = 0]
    /\ pc' = [pc EXCEPT ![0] = "bcast"]
    /\ UNCHANGED <<LayoutFrame, start_idx, layout_i>>

\* The entries of rank 0, start_idx, and the initialisation of the loop.
\* counts[0] is at least 2 * n (count and remainder are not both zero), so
\* the unsigned difference does not wrap.
LayoutFirst ==
    /\ pc[0] = "layout"
    /\ mpi_size > 1
    /\ counts' = [counts EXCEPT ![0] =
                     (IF 0 < remainder THEN count + 1 + 1 ELSE count + 1) * n]
    /\ start_idxs' = [start_idxs EXCEPT ![0][0] = 0]
    /\ start_idx' = counts'[0] - 2 * n
    /\ layout_i' = 1
    /\ pc' = [pc EXCEPT ![0] = "layout_for"]
    /\ UNCHANGED LayoutFrame

\* One pass of for (int i = 1; i < mpi_size - 1; ++i).
LayoutMiddle ==
    /\ pc[0] = "layout_for"
    /\ layout_i < mpi_size - 1
    /\ counts' = [counts EXCEPT ![layout_i] =
                     (IF layout_i < remainder THEN count + 1 + 2 ELSE count + 2) * n]
    /\ start_idxs' = [start_idxs EXCEPT ![0][layout_i] = start_idx]
    /\ start_idx' = start_idx + (counts'[layout_i] - 2 * n)
    /\ layout_i' = layout_i + 1
    /\ UNCHANGED <<LayoutFrame, pc>>

\* The loop is left: the entries of the last rank.
LayoutLast ==
    /\ pc[0] = "layout_for"
    /\ ~(layout_i < mpi_size - 1)
    /\ counts' = [counts EXCEPT ![mpi_size - 1] =
                     (IF mpi_size - 1 < remainder THEN count + 1 + 1
                      ELSE count + 1) * n]
    /\ start_idxs' = [start_idxs EXCEPT ![0][mpi_size - 1] = start_idx]
    /\ pc' = [pc EXCEPT ![0] = "bcast"]
    /\ UNCHANGED <<LayoutFrame, start_idx, layout_i>>

NextLayout ==
    \/ LayoutAlone
    \/ LayoutFirst
    \/ LayoutMiddle
    \/ LayoutLast

LayoutSpec == InitLayout /\ [][NextLayout]_vars

(***************************************************************************)
(* Positions and ownership used by the properties.                         *)
(***************************************************************************)
\* Every rank has returned from the solve.
Done == \A r \in Ranks : pc[r] = "done"

\* A rank inside a point-to-point call of the exchange.
ExchangePcs == SendPcs \cup RecvPcs

\* A rank at a position it leaves by a step of its own (the entry of the
\* solve, the loop test): such a step is always enabled.
LocalPcs == {"start", "loop", "body_end"}

\* A rank inside a collective call.
CollectivePcs == {"bcast", "scatter", "allreduce", "gather"} \cup BarrierPcs

\* The local rows rank r owns: all of its rows but the halo rows.
FirstOwned(r) == IF mpi_size > 1 /\ r > 0 THEN 1 ELSE 0
LastOwned(r) ==
    IF mpi_size > 1 /\ r < mpi_size - 1 THEN local_rows(r) - 2
    ELSE local_rows(r) - 1

\* The global index of local row i of rank r, and the owner of global row g.
GlobalRow(r, i) == (StartIdx(r) \div n) + i
Owner(g) ==
    CHOOSE r \in Ranks :
        \E i \in FirstOwned(r) .. LastOwned(r) : GlobalRow(r, i) = g

(***************************************************************************)
(* Properties.                                                             *)
(***************************************************************************)
\* C1: the halo exchange terminates on every rank, whether a blocking send
\* completes by buffering or by rendezvous: whenever a rank is inside a
\* send or a receive of the exchange, the system can still take a step (a
\* run is finite, so a rank blocked forever is a rank in the exchange in a
\* state without successor).
C1_ExchangeTerminates ==
    (\E r \in Ranks : pc[r] \in ExchangePcs) => ENABLED Next

\* C2: in a distributed solve all ranks take the same decision at every
\* outer step, perform the same number of outer iterations and record the
\* same final iter, and no rank waits in a collective the others never
\* enter: when a rank is inside a collective and no rank is at a position
\* it leaves on its own, some step is still possible.
C2_Lockstep ==
    mode \in DistributedModes =>
        /\ \A r, q \in Ranks : dec_hist[r] = dec_hist[q]
        /\ \A r, q \in Ranks : Len(res_hist[r]) = Len(res_hist[q])
        /\ Done => \A r, q \in Ranks : iter[r] = iter[q]
        /\ ( /\ \E r \in Ranks : pc[r] \in CollectivePcs
             /\ \A r \in Ranks : pc[r] \notin LocalPcs ) => ENABLED Next

\* C2 witness: a solve on several ranks has returned after two outer
\* steps, the first with a nonzero residual, the second converged.
C2_Witness ==
    /\ Done
    /\ mode \in DistributedModes
    /\ mpi_size >= 2
    /\ Len(dec_hist[0]) = 2
    /\ res_hist[0][1] > 0
    /\ \A r \in Ranks : converged[r] /\ iter[r] = 2

\* C3: after a distributed solve has returned, every row g of the root's
\* field equals the row its owner holds for g, whatever the order in which
\* the gather wrote the overlapping slices, and every halo row equals the
\* neighbour's owned row.
C3_GatherConsistent ==
    (Done /\ mode \in DistributedModes) =>
        /\ \A g \in 0 .. (n - 1) : \A j \in 0 .. (n - 1) :
              uh[0][g * n + j]
                 = local_uh[Owner(g)][(g - GlobalRow(Owner(g), 0)) * n + j]
        /\ \A r \in Ranks : \A j \in 0 .. (n - 1) :
              /\ r < mpi_size - 1 =>
                    local_uh[r][(local_rows(r) - 1) * n + j] = local_uh[r + 1][n + j]
              /\ r > 0 =>
                    local_uh[r][j] = local_uh[r - 1][(local_rows(r - 1) - 2) * n + j]

\* C3 witness: a solve on three ranks has returned after two outer steps
\* whose last sweep changed the first owned row of a rank, the row its
\* neighbour holds as a halo.
C3_Witness ==
    /\ Done
    /\ mode \in DistributedModes
    /\ mpi_size >= 3
    /\ Len(res_hist[0]) = 2
    /\ \E r \in Ranks : \E j \in 0 .. (n - 1) :
          r > 0 /\ local_uh[r][n + j] /= local_previous[r][n + j]

\* C4: in every mode, once the solve has passed its boundary assignment,
\* every boundary cell of the field the solve returns equals the value of
\* the callable of an edge the cell lies on, at that cell; a sweep or a
\* write-back leaves every cell of the physical boundary as it was.
C4_BoundaryPreserved ==
    LET OnBoundary(i, j) == i = 0 \/ i = n - 1 \/ j = 0 \/ j = n - 1
        EdgeValues(i, j) ==
            (IF i = 0 THEN {Call(top_bc, i, j)} ELSE {})
            \cup (IF i = n - 1 THEN {Call(bottom_bc, i, j)} ELSE {})
            \cup (IF j = 0 THEN {Call(left_bc, i, j)} ELSE {})
            \cup (IF j = n - 1 THEN {Call(right_bc, i, j)} ELSE {})
    IN
    \A r \in Ranks :
        /\ (pc[r] /= "start" /\ (mode \in DistributedModes => r = 0)) =>
              \A i \in 0 .. (n - 1) : \A j \in 0 .. (n - 1) :
                  OnBoundary(i, j) => uh[r][i * n + j] \in EdgeValues(i, j)
        /\ (mode \notin DistributedModes /\ pc[r] = "body_end") =>
              \A i \in 0 .. (n - 1) : \A j \in 0 .. (n - 1) :
                  OnBoundary(i, j) => uh[r][i * n + j] = previous[i * n + j]
        /\ (mode \in DistributedModes /\ pc[r] \in {"barrier1", "allreduce"}) =>
              \A i \in 0 .. (local_rows(r) - 1) : \A j \in 0 .. (n - 1) :
                  OnBoundary(GlobalRow(r, i), j) =>
                      local_uh[r][i * n + j] = local_previous[r][i * n + j]

\* C5: a sweep declares convergence exactly when its residual is strictly
\* below tol; when it does at zero-based index k, iter is k + 1 (until a
\* reset() zeroes it) and no further sweep is performed.
C5_ConvergenceTest ==
    \A r \in Ranks :
        /\ Len(dec_hist[r]) = Len(res_hist[r])
        /\ \A k \in 1 .. Len(dec_hist[r]) :
              /\ dec_hist[r][k] <=> (res_hist[r][k] < tol)
              /\ dec_hist[r][k] =>
                    /\ k = Len(dec_hist[r])
                    /\ pc[r] /= "idle" => iter[r] = k
                    /\ pc[r] \notin {"loop", "barrier1", "allreduce"}

\* C5 witness: a solve has returned whose first sweep had a residual equal
\* to tol and whose second sweep converged.
C5_Witness ==
    \E r \in Ranks :
        /\ pc[r] = "done"
        /\ Len(dec_hist[r]) = 2
        /\ res_hist[r][1] = tol
        /\ dec_hist[r][2]
        /\ iter[r] = 2

\* C6: a solve whose residual is >= tol on every sweep (max_iter >= 1)
\* performs max_iter sweeps and returns with iter = max_iter and one
\* warning; a solve that converges on some sweep, the last permitted one
\* included, returns without warning; no solve hangs in its loop.
C6_NonConvergenceSignalled ==
    \A r \in Ranks :
        /\ pc[r] /= "hung"
        /\ pc[r] = "done" =>
              /\ (max_iter >= 1 /\ \A k \in 1 .. Len(res_hist[r]) :
                                       res_hist[r][k] >= tol) =>
                    /\ Len(res_hist[r]) = max_iter
                    /\ iter[r] = max_iter
                    /\ warned[r] = 1
              /\ (\E k \in 1 .. Len(res_hist[r]) : res_hist[r][k] < tol) =>
                    warned[r] = 0

\* C6 witness: a solve has returned after two sweeps, neither converged,
\* with iter = max_iter and its warning.
C6_Witness ==
    \E r \in Ranks :
        /\ pc[r] = "done"
        /\ max_iter = 2
        /\ Len(res_hist[r]) = 2
        /\ \A k \in 1 .. 2 : res_hist[r][k] >= tol
        /\ iter[r] = 2
        /\ warned[r] = 1

\* C7: right after the reduction of an outer step, on every rank the local
\* residual is that of the rank's whole local field, the global residual
\* is the maximum of the local residuals, and the rank has converged
\* exactly when that maximum is strictly below tol.
C7_MaxResidual ==
    ( /\ mode \in DistributedModes
      /\ Len(res_hist[0]) > 0
      /\ \A q \in Ranks : pc[q] = AfterDecide(q) ) =>
        \A r \in Ranks :
            /\ local_residual[r]
                 = compute_error_serial(local_uh[r], local_previous[r],
                                        local_rows(r), n)
            /\ \E q \in Ranks : global_residual[r] = local_residual[q]
            /\ \A q \in Ranks : global_residual[r] >= local_residual[q]
            /\ res_hist[r][Len(res_hist[r])] = global_residual[r]
            /\ converged[r] <=> (global_residual[r] < tol)

\* C7 witness: right after a reduction, two ranks hold different nonzero
\* local residuals.
C7_Witness ==
    /\ mode \in DistributedModes
    /\ Len(res_hist[0]) > 0
    /\ \A q \in Ranks : pc[q] = AfterDecide(q)
    /\ \E r, q \in Ranks :
          0 < local_residual[r] /\ local_residual[r] < local_residual[q]

\* C8: for the same n, callables, tol, max_iter and initial guess, the field
\* returned by the serial, shared-memory, distributed and hybrid Jacobi
\* solves agrees cell by cell within 1e-9 with that of the serial solve,
\* and the iteration counts differ by at most 1.
C8_ModesAgree ==
    (Done /\ mode \in {"serial", "omp", "mpi", "hybrid"}) =>
        /\ \A k \in DOMAIN uh[0] :
              /\ uh[0][k] - solve_serial.uh[k] <= Scale \div 1000000000
              /\ solve_serial.uh[k] - uh[0][k] <= Scale \div 1000000000
        /\ iter[0] - solve_serial.iter <= 1
        /\ solve_serial.iter - iter[0] <= 1

\* C9: in every mode that assigns the boundary, once it has done so every
\* boundary cell (i, j) holds the value of the callable of its edge at the
\* cell's own coordinates (i/(n-1), j/(n-1)).
C9_BoundaryAtOwnCoordinates ==
    LET Edges(i, j) ==
            (IF i = 0 THEN {top_bc} ELSE {})
            \cup (IF i = n - 1 THEN {bottom_bc} ELSE {})
            \cup (IF j = 0 THEN {left_bc} ELSE {})
            \cup (IF j = n - 1 THEN {right_bc} ELSE {})
    IN
    \A r \in Ranks :
        ( /\ pc[r] /= "start"
          /\ mode /= "hybrid"
          /\ mode \in DistributedModes => r = 0 ) =>
            \A i \in 0 .. (n - 1) : \A j \in 0 .. (n - 1) :
                Edges(i, j) /= {} =>
                    \E fun \in Edges(i, j) : uh[r][i * n + j] = Call(fun, i, j)

\* C10: in every mode that assigns the boundary, once it has done so the
\* four corners hold the value of the horizontal edge's callable (top for
\* row 0, bottom for row n-1); and the corners the serial and the
\* distributed assignment produce from the same field are the same.
C10_CornerConvention ==
    /\ \A r \in Ranks :
          ( /\ pc[r] /= "start"
            /\ mode /= "hybrid"
            /\ mode \in DistributedModes => r = 0 ) =>
              /\ uh[r][0] = Call(top_bc, 0, 0)
              /\ uh[r][n - 1] = Call(top_bc, 0, n - 1)
              /\ uh[r][(n - 1) * n] = Call(bottom_bc, n - 1, 0)
              /\ uh[r][(n - 1) * n + (n - 1)] = Call(bottom_bc, n - 1, n - 1)
    /\ \A k \in {0, n - 1, (n - 1) * n, (n - 1) * n + (n - 1)} :
          BoundaryLoopSerial(initial_guess, 0)[k]
             = BoundaryLoopMpi(initial_guess, 0)[k]

\* C11: with zero outer steps (max_iter = 0) a distributed solve scatters the
\* root's field and gathers it back with the same counts and offsets, and the
\* root's field after the gather is exactly the field it held before the
\* scatter, for every number of ranks 1 <= P <= n.
C11_ScatterGatherRoundTrip ==
    (mode \in DistributedModes /\ max_iter = 0 /\ Done)
        => /\ \A r \in Ranks : Len(res_hist[r]) = 0
           /\ uh[0] = ApplyBoundary(0, initial_guess)

\* C11 witness: a zero-step solve on the most ranks has returned, every
\* rank holding its slice, on a field whose rows all differ.
C11_Witness ==
    /\ mode = "mpi" /\ max_iter = 0 /\ Done
    /\ mpi_size = MaxP /\ n = MaxN
    /\ \A r \in Ranks : DOMAIN local_uh[r] = 0 .. (local_rows(r) * n - 1)
    /\ \A i \in 0 .. (n - 2) : uh[0][i * n] /= uh[0][(i + 1) * n]

\* C12: when the message-passing runtime is not initialized, a distributed
\* solve prints its error and returns at once: the rank enters no collective
\* and no send or receive, builds no partition and no local field, performs
\* no sweep, and leaves u (boundary cells included) and iter as they were.
C12_UninitializedReturns ==
    /\ (mode \in DistributedModes /\ ~initialized) =>
          /\ \A r \in Ranks :
                /\ pc[r] \in {"start", "refused", "idle"}
                /\ diagnosed[r] = IF pc[r] = "start" THEN 0 ELSE 1
                /\ pc[r] /= "idle" => uh[r] = initial_guess /\ iter[r] = 0
                /\ warned[r] = 0
                /\ res_hist[r] = <<>>
                /\ local_uh[r] = <<>>
                /\ start_idxs[r] = [i \in Ranks |-> 0]
          /\ \A e \in Ranks \X Ranks : chan[e] = <<>>
    /\ RuntimeReady => \A r \in Ranks : diagnosed[r] = 0 /\ pc[r] /= "refused"

\* C12 witness: every rank of a distributed solve has returned with the
\* error, on a field whose boundary the solve would have changed.
C12_Witness ==
    /\ mode = "mpi" /\ ~initialized /\ mpi_size >= 2
    /\ \A r \in Ranks : pc[r] = "refused" /\ diagnosed[r] = 1
    /\ ApplyBoundary(0, initial_guess) /= initial_guess
    /\ uh[0] = initial_guess

\* C13: a solve invoked with n < 3, max_iter = 0 or tol <= 0 is rejected
\* before any boundary assignment or sweep: it leaves u and iter unchanged.
C13_ConfigurationRejected ==
    (n < 3 \/ max_iter = 0 \/ tol <= 0) =>
        \A r \in Ranks :
            pc[r] /= "idle" =>
                /\ uh[r] = initial_guess
                /\ iter[r] = 0
                /\ pc[r] \in {"start", "refused"}

\* C14: solve_direct with one rank and max_iter = 1 leaves in u the solution
\* of the 5-point system: every interior cell (i, j) satisfies
\* 4*u[i,j] - u[i-1,j] - u[i+1,j] - u[i,j-1] - u[i,j+1] = h^2 * f(i/(n-1), j/(n-1))
\* (to the rounding of the five values: half a unit each).
C14_DirectSolvesSystem ==
    (mode = "direct" /\ mpi_size = 1 /\ max_iter = 1 /\ Done) =>
        \A i, j \in 1 .. (n - 2) :
            LET u == uh[0]
                defect == 4 * u[i * n + j] - u[(i - 1) * n + j]
                            - u[(i + 1) * n + j] - u[i * n + j - 1]
                            - u[i * n + j + 1] - SourceTerm(i, j)
            IN  defect >= -4 /\ defect <= 4

\* C15 (as stated): whenever the maximum over the ranks of the local
\* residuals of an iterate is below tol, the residual of the same iterate
\* taken over the whole n x n field (the serial criterion) is below tol.
C15_StricterThanGlobal ==
    ( /\ mode \in DistributedModes
      /\ Len(res_hist[0]) > 0
      /\ \A q \in Ranks : pc[q] = AfterDecide(q) ) =>
        LET Whole(lf) ==
                [k \in 0 .. (n * n - 1) |->
                    LET q == Owner(k \div n)
                    IN  lf[q][k - StartIdx(q)]]
            whole == compute_error_serial(Whole(local_uh),
                                          Whole(local_previous), n, n)
        IN  MaxOver({local_residual[q] : q \in Ranks}) < tol => whole < tol

\* C15 (amended): the distributed criterion is the weaker one.  For every
\* iterate the maximum of the local residuals is at most the residual over
\* the whole field, which is at most sqrt(P) times that maximum (P times,
\* for the sums of squares); so every rank converges whenever the residual
\* over the whole field is below tol.
C15_WeakerThanGlobal ==
    ( /\ mode \in DistributedModes
      /\ Len(res_hist[0]) > 0
      /\ \A q \in Ranks : pc[q] = AfterDecide(q) ) =>
        LET Whole(lf) ==
                [k \in 0 .. (n * n - 1) |->
                    LET q == Owner(k \div n)
                    IN  lf[q][k - StartIdx(q)]]
            whole == compute_error_serial(Whole(local_uh),
                                          Whole(local_previous), n, n)
        IN  \A r \in Ranks :
                /\ global_residual[r] <= whole
                /\ whole <= mpi_size * global_residual[r]
                /\ whole < tol => converged[r]

\* C15 witness: right after a reduction every rank has converged on a
\* maximum of local residuals below tol, while the residual of the iterate
\* over the whole field, the sum of two nonzero local ones, is not.
C15_Witness ==
    /\ mode = "mpi" /\ mpi_size >= 2
    /\ Len(res_hist[0]) > 0
    /\ \A q \in Ranks : pc[q] = AfterDecide(q) /\ converged[q]
    /\ local_residual[0] > 0 /\ local_residual[1] > 0
    /\ global_residual[0] < tol
    /\ local_residual[0] + local_residual[1] >= tol

\* C16: reset() sets iter to 0 and replaces u by exactly n*n zeros, whatever
\* u held before (first conjunct: the object after reset()) and whatever its
\* length was (second conjunct: clear and resize on the field a solve has
\* returned, cut or extended to the empty field and to the fields of a
\* smaller and of a larger grid).
C16_ResetZeroes ==
    \A r \in Ranks :
        /\ pc[r] = "idle" =>
              /\ iter[r] = 0
              /\ DOMAIN uh[r] = 0 .. (n * n - 1)
              /\ \A k \in DOMAIN uh[r] : uh[r][k] = 0
        /\ pc[r] \in ReturnedPcs =>
              \A len \in {0, (n - 1) * (n - 1), n * n, (n + 1) * (n + 1)} :
                  LET old == [k \in 0 .. (len - 1) |->
                                 IF k \in DOMAIN uh[r] THEN uh[r][k] ELSE Scale]
                  IN  Resize(Clear(old), n * n, 0) = Zeros(n * n)

\* C16 witness: an object is reset after a solve of two sweeps that had left
\* it a nonzero field and iter = 2.
C16_Witness ==
    \E r \in Ranks :
        /\ pc[r] = "idle"
        /\ Len(res_hist[r]) = 2
        /\ dec_hist[r][2]
        /\ initial_guess[0] /= 0
        /\ iter[r] = 0
        /\ uh[r] = Zeros(n * n)

\* C17: a call of l2_error() changes neither u nor iter.  With an exact
\* solution set it stores the error of u against it (the sum of squares over
\* all cells, under the root and the factor 1/(n-1)) and returns what it
\* stored; with none set it returns -1.0, prints one message and leaves the
\* stored L2_error as it was.
C17_L2Error ==
    [][ \A r \in Ranks :
          l2_call'[r] /= l2_call[r] =>
              /\ uh' = uh
              /\ iter' = iter
              /\ IF uex /= <<>>
                 THEN LET sum[k \in 0 .. (n * n)] ==
                              IF k = n * n THEN 0
                              ELSE LET d == uh[r][k]
                                              - Call(uex[1], k \div n, k % n)
                                   IN  d * d + sum[k + 1]
                      IN  /\ L2_error'[r] = sum[0]
                          /\ l2_call'[r] = <<[ret |-> sum[0], log |-> 0]>>
                 ELSE /\ L2_error'[r] = L2_error[r]
                      /\ l2_call'[r] = <<[ret |-> -1, log |-> 1]>> ]_vars

\* C17 witness: l2_error() was called without an exact solution on an object
\* that held a stored error and had solved: it returned -1.0 with its
\* message, and the stored error is still there.
C17_Witness ==
    /\ uex = <<>>
    /\ pc[0] = "done" /\ iter[0] >= 1
    /\ l2_call[0] = <<[ret |-> -1, log |-> 1]>>
    /\ L2_error[0] /= -1

\* C18: a solve_serial or solve_omp call performs at most max_iter sweeps and
\* returns: it never hangs, and until it has returned a step of it (the
\* entry, a sweep, or the exit of the loop) is always possible.  When it has
\* returned with max_iter >= 1, iter is the number of sweeps performed and
\* 1 <= iter <= max_iter.
C18_LocalSolveTerminates ==
    mode \in {"serial", "omp"} =>
        \A r \in Ranks :
            /\ Len(res_hist[r]) <= max_iter
            /\ pc[r] \in LocalPcs \cup {"done", "idle"}
            /\ pc[r] \in LocalPcs =>
                  ENABLED (Start(r) \/ LocalPass(r) \/ LoopExit(r))
            /\ (pc[r] = "done" /\ max_iter >= 1) =>
                  /\ iter[r] = Len(res_hist[r])
                  /\ 1 <= iter[r]
                  /\ iter[r] <= max_iter

\* C18 witness: a solve_omp call has returned after max_iter = 2 sweeps
\* without converging, with iter = 2.
C18_Witness ==
    /\ mode = "omp" /\ max_iter = 2
    /\ pc[0] = "done"
    /\ Len(res_hist[0]) = 2
    /\ ~dec_hist[0][2]
    /\ iter[0] = 2

\* C19: if the initial iterate, after the boundary assignment of the solve,
\* is a fixed point of the Jacobi sweep (every interior cell is the mean of
\* its four neighbours plus h^2 f / 4), a Jacobi solve with max_iter >= 1
\* performs exactly one sweep and returns iter = 1 without warning, with u
\* equal to that initial iterate.
C19_FixedPointOneSweep ==
    LET u0 == ApplyBoundary(0, initial_guess)
        fixed == \A i, j \in 1 .. (n - 2) :
                     4 * u0[i * n + j]
                       = u0[(i - 1) * n + j] + u0[(i + 1) * n + j]
                         + u0[i * n + j - 1] + u0[i * n + j + 1]
                         + SourceTerm(i, j)
    IN  (mode /= "direct" /\ max_iter >= 1 /\ fixed /\ Done) =>
            \A r \in Ranks :
                /\ Len(res_hist[r]) = 1
                /\ dec_hist[r] = <<TRUE>>
                /\ iter[r] = 1
                /\ warned[r] = 0
                /\ r = 0 => uh[r] = u0

\* C19 witness: solve_serial has returned after one sweep of the allowed
\* two from the uniform field 2, a nonzero fixed point.
C19_Witness ==
    /\ mode = "serial" /\ max_iter = MaxIter
    /\ initial_guess = GuessField(Const(2))
    /\ ApplyBoundary(0, initial_guess) = initial_guess
    /\ Done
    /\ Len(res_hist[0]) = 1
    /\ iter[0] = 1 /\ warned[0] = 0
    /\ uh[0] = initial_guess

\* C20: the boundary assignment is idempotent.  Applied to a field (the
\* field the root's object holds whenever it has just changed: at the call,
\* after the boundary assignment, after a sweep of solve_serial or
\* solve_omp, at the return, after reset(); it stays as it is while the
\* objects of the other ranks are measured and reset), the loop of
\* solve_serial and solve_omp and the loop of solve_mpi and solve_direct each
\* leave the interior cells untouched, and applied a second time they change
\* nothing: every boundary cell, corners included, keeps its value.
C20_BoundaryIdempotent ==
    ( /\ pc[0] \in LocalPcs \cup ReturnedPcs \cup {"bcast", "idle"}
      /\ \A r \in Ranks : r > 0 => pc[r] /= "idle" /\ l2_call[r] = <<>> ) =>
        LET u == uh[0]
            serial == BoundaryLoopSerial(u, 0)
            mpi == BoundaryLoopMpi(u, 0)
        IN  /\ BoundaryLoopSerial(serial, 0) = serial
            /\ BoundaryLoopMpi(mpi, 0) = mpi
            /\ \A i, j \in 1 .. (n - 2) :
                  /\ serial[i * n + j] = u[i * n + j]
                  /\ mpi[i * n + j] = u[i * n + j]

\* C20 witness: solve_serial has assigned the boundary of a field it changed
\* by that (edges of different values on a uniform guess) and is about to
\* sweep; the loop of solve_mpi would have changed the guess as well.
C20_Witness ==
    /\ mode = "serial"
    /\ pc[0] = "loop" /\ res_hist[0] = <<>>
    /\ uh[0] /= initial_guess
    /\ uh[0] = BoundaryLoopSerial(initial_guess, 0)
    /\ uh[0][0] /= uh[0][n - 1]
    /\ BoundaryLoopMpi(initial_guess, 0) /= initial_guess

\* C21: when a rank has completed the halo exchange of an outer step, its
\* top halo row (local row 0, ranks r > 0) is the last owned row of rank r-1
\* and its bottom halo row (local row local_rows-1, ranks r < P-1) is the
\* first owned row of rank r+1, both as they stand after that step's sweep
\* (a neighbour that has already swept again keeps them in local_previous);
\* the rows sent to it in that step have all been received; at most one row
\* is ever in flight between two ranks in one direction, and none is when
\* the gather starts.
C21_HaloAfterExchange ==
    mode \in DistributedModes =>
        LET After(q, off) ==
                RowAt(IF pc[q] = "barrier1" THEN local_previous[q]
                                            ELSE local_uh[q], off)
        IN  /\ \A r \in Ranks :
                  pc[r] = "body_end" =>
                      /\ r > 0 =>
                            /\ RowAt(local_uh[r], 0)
                                 = After(r - 1, (local_rows(r - 1) - 2) * n)
                            /\ chan[<<r - 1, r>>] = <<>>
                      /\ r < mpi_size - 1 =>
                            /\ RowAt(local_uh[r], (local_rows(r) - 1) * n)
                                 = After(r + 1, n)
                            /\ chan[<<r + 1, r>>] = <<>>
            /\ \A e \in Ranks \X Ranks : Len(chan[e]) <= 1
            /\ (\E r \in Ranks : pc[r] \in {"gather", "done", "idle"}) =>
                  \A e \in Ranks \X Ranks : chan[e] = <<>>

\* C21 witness: three ranks have completed the exchange of the second outer
\* step; the top halo row of the middle rank and the bottom halo row of
\* the first rank hold values that the second sweep of the neighbour
\* produced.
C21_Witness ==
    /\ mode = "mpi" /\ mpi_size = 3 /\ n = 4
    /\ \A r \in Ranks : pc[r] = "body_end" /\ Len(res_hist[r]) = 2
    /\ local_uh[1][1] /= local_previous[1][1]
    /\ local_uh[0][2 * n + 1] /= local_previous[0][2 * n + 1]
    /\ RowAt(local_uh[1], 0) = RowAt(local_uh[0], n)
    /\ RowAt(local_uh[0], 2 * n) = RowAt(local_uh[1], n)
    /\ RowAt(local_uh[1], 2 * n) = RowAt(local_uh[2], n)

\* C22: in a distributed solve with 1 <= P <= n, from the moment the root
\* has computed the layout until it enters the loop, rank r owns floor(n/P) + (1 if r < n mod P else 0) rows (its
\* local rows without the halo rows, placed by the root's offsets); the
\* owned ranges start at row 0, follow each other in rank order without gap
\* or overlap, and end at row n-1, so that the owned rows sum to n.
C22_RowPartition ==
    (mode \in DistributedModes
       /\ pc[0] \in {"bcast", "barrier0", "scatter", "loop"}) =>
        LET rows(r) == (n \div mpi_size) + (IF r < n % mpi_size THEN 1 ELSE 0)
            first(r) == (start_idxs[0][r] \div n) + FirstOwned(r)
            last(r) == (start_idxs[0][r] \div n) + LastOwned(r)
            total[r \in 0 .. mpi_size] ==
                IF r = mpi_size THEN 0 ELSE rows(r) + total[r + 1]
        IN  /\ mpi_size >= 1 /\ mpi_size <= n
            /\ \A r \in Ranks :
                  /\ last(r) - first(r) + 1 = rows(r)
                  /\ rows(r) >= 1
                  /\ r > 0 => first(r) = last(r - 1) + 1
            /\ first(0) = 0
            /\ last(mpi_size - 1) = n - 1
            /\ total[0] = n

\* C22 witness: the layout of n = MaxN rows on MaxP ranks, which do not
\* divide evenly, has been computed and the ranks are past the scatter.
C22_Witness ==
    /\ mode = "mpi" /\ n = MaxN /\ mpi_size = MaxP
    /\ n % mpi_size /= 0
    /\ \A r \in Ranks : pc[r] = "loop"
    /\ start_idxs[0][mpi_size - 1] > 0

\* C23: in a distributed solve every rank computes local_rows as its owned
\* rows plus a top halo row unless it is rank 0 plus a bottom halo row
\* unless it is rank P-1 (so local_rows = n when P = 1); local_rows * n is
\* the count the root uses for the rank in scatter and gather, and is the
\* length of the local field the rank holds once the scatter is done
\* (looked at before the scatter, on entering the loop, after every sweep
\* and at the gather).
C23_LocalFieldSize ==
    mode \in DistributedModes =>
        \A r \in { q \in Ranks : pc[q] \in {"bcast", "loop", "barrier1", "gather"} } :
            LET rows == (n \div mpi_size)
                          + (IF r < n % mpi_size THEN 1 ELSE 0)
                halo_top == IF r = 0 THEN 0 ELSE 1
                halo_bottom == IF r = mpi_size - 1 THEN 0 ELSE 1
            IN  /\ local_rows(r) = rows + halo_top + halo_bottom
                /\ mpi_size = 1 => local_rows(r) = n
                /\ local_rows(r) * n = Counts(r)
                /\ local_uh[r] /= <<>> =>
                      /\ DOMAIN local_uh[r] = 0 .. (Counts(r) - 1)
                      /\ DOMAIN local_previous[r] = DOMAIN local_uh[r]

\* C23 witness: four rows on three ranks are scattered: the first rank holds
\* two owned rows and a bottom halo row, the middle rank one owned row
\* between two halo rows, the last rank a top halo row and one owned row.
C23_Witness ==
    /\ mode = "hybrid" /\ n = 4 /\ mpi_size = 3
    /\ \A r \in Ranks : pc[r] = "loop" /\ res_hist[r] = <<>>
    /\ DOMAIN local_uh[0] = 0 .. (3 * n - 1)
    /\ DOMAIN local_uh[1] = 0 .. (3 * n - 1)
    /\ DOMAIN local_uh[2] = 0 .. (2 * n - 1)

\* C24 (as stated): in the layout the scatter and the gather use, the
\* slice of rank 0 starts at offset 0, the slice of
\* each further rank starts (local_rows_prev - 1) * n elements after the
\* start of the previous rank's slice, and the slices of adjacent ranks
\* overlap by exactly one row.
C24_OverlapOneRow ==
    (mode \in DistributedModes
       /\ pc[0] \in {"bcast", "barrier0", "scatter", "gather"}) =>
        /\ start_idxs[0][0] = 0
        /\ \A r \in Ranks :
              r > 0 =>
                  /\ start_idxs[0][r]
                       = start_idxs[0][r - 1] + (local_rows(r - 1) - 1) * n
                  /\ start_idxs[0][r - 1] + Counts(r - 1) - start_idxs[0][r]
                       = 1 * n

\* C24 (amended): in the layout the scatter and the gather use, the slice
\* of rank 0 starts at offset 0 and the slice of
\* each further rank starts (local_rows_prev - 2) * n elements after the
\* start of the previous rank's slice, at the last owned row of the
\* previous rank; the slices of adjacent ranks overlap by exactly two rows,
\* the last owned row of the upper rank and the first owned row of the lower
\* rank (each the halo row of the other), and every slice lies inside the
\* field.
C24_OverlapTwoRows ==
    (mode \in DistributedModes
       /\ pc[0] \in {"bcast", "barrier0", "scatter", "gather"}) =>
        /\ start_idxs[0][0] = 0
        /\ \A r \in Ranks :
              /\ start_idxs[0][r] + Counts(r) <= n * n
              /\ r > 0 =>
                  /\ start_idxs[0][r]
                       = start_idxs[0][r - 1] + (local_rows(r - 1) - 2) * n
                  /\ start_idxs[0][r] \div n
                       = (start_idxs[0][r - 1] \div n) + LastOwned(r - 1)
                  /\ start_idxs[0][r - 1] + Counts(r - 1) - start_idxs[0][r]
                       = 2 * n
                  /\ (start_idxs[0][r - 1] + Counts(r - 1)) \div n - 1
                       = (start_idxs[0][r] \div n) + FirstOwned(r)

\* C24 witness: the root has computed the offsets of three slices of a
\* field of four rows: rows 0..2, rows 1..3 and rows 2..3.
C24_Witness ==
    /\ mode = "mpi" /\ n = 4 /\ mpi_size = 3
    /\ pc[0] = "bcast"
    /\ start_idxs[0] = [i \in Ranks |-> i * n]
    /\ Counts(0) = 3 * n /\ Counts(1) = 3 * n /\ Counts(2) = 2 * n

\* C25: in every distributed solve the root has assigned the four boundary
\* callables to the global field before the scatter: when the scatter is
\* done and no sweep has been made, every physical boundary cell of every
\* rank's local field (halo rows included) holds the value of the callable
\* of its edge (of one of its two edges, at a corner) at the cell's global
\* coordinates.
C25_BoundaryBeforeScatter ==
    LET Edges(i, j) ==
            (IF i = 0 THEN {top_bc} ELSE {})
            \cup (IF i = n - 1 THEN {bottom_bc} ELSE {})
            \cup (IF j = 0 THEN {left_bc} ELSE {})
            \cup (IF j = n - 1 THEN {right_bc} ELSE {})
    IN  ( /\ mode \in DistributedModes
          /\ \A r \in Ranks : pc[r] = "loop" /\ res_hist[r] = <<>> ) =>
            \A r \in Ranks :
                \A i \in 0 .. (local_rows(r) - 1) : \A j \in 0 .. (n - 1) :
                    Edges(GlobalRow(r, i), j) /= {} =>
                        \E fun \in Edges(GlobalRow(r, i), j) :
                            local_uh[r][i * n + j]
                              = Call(fun, GlobalRow(r, i), j)

\* C26: a sweep of a distributed solve writes only the cells of local rows
\* 1..local_rows-2 and columns 1..n-2: the cells of the loop nest are these,
\* and after a pass the local field differs from the previous iterate in no
\* other cell.  The rows a rank sweeps are owned rows, never a halo row;
\* when all ranks have swept, every global row 1..n-2 is swept by exactly one rank and
\* rows 0 and n-1 by none.
C26_SweptRows ==
    mode \in DistributedModes =>
        LET Swept(r) == 1 .. (local_rows(r) - 2)
            Cells(r) == { i * n + j : i \in Swept(r), j \in 1 .. (n - 2) }
            Sweepers(g) ==
                { r \in Ranks : \E i \in Swept(r) : GlobalRow(r, i) = g }
        IN  /\ \A r \in Ranks :
                  pc[r] = "barrier1" =>
                      /\ UpdatedCells(local_rows(r)) = Cells(r)
                      /\ \A k \in DOMAIN local_uh[r] :
                            k \notin Cells(r) =>
                                local_uh[r][k] = local_previous[r][k]
                      /\ \A i \in Swept(r) :
                            /\ i >= FirstOwned(r) /\ i <= LastOwned(r)
                            /\ GlobalRow(r, i) \in 1 .. (n - 2)
            /\ AllAt("barrier1") =>
                  /\ \A g \in 1 .. (n - 2) : Cardinality(Sweepers(g)) = 1
                  /\ Sweepers(0) = {} /\ Sweepers(n - 1) = {}

\* C26 witness: three ranks have swept four rows: the first and the middle
\* rank have each changed a cell of their one swept row, and the last rank,
\* which holds a halo row and the bottom boundary row, has swept nothing.
C26_Witness ==
    /\ mode = "mpi" /\ n = 4 /\ mpi_size = 3
    /\ \A r \in Ranks : pc[r] = "barrier1"
    /\ local_uh[0][n + 1] /= local_previous[0][n + 1]
    /\ local_uh[1][n + 1] /= local_previous[1][n + 1]
    /\ local_uh[2] = local_previous[2]
    /\ local_rows(2) = 2

\* C27: in a distributed solve every rank that enters the loop, and every
\* rank that has just swept, holds the root's offsets, and for each local row i it updates (1..local_rows-2)
\* it evaluates f at row start_idxs[r]/n + i.  That row is the global index
\* of the local row (the owned rows of the lower ranks, less the rank's top
\* halo row, plus i), it lies in 1..n-2, and with any updated column
\* 1..n-2 it passes the range check of fun_at.
C27_SourceRow ==
    mode \in DistributedModes =>
        \A r \in Ranks :
            pc[r] \in {"loop", "barrier1"} =>
                LET owned(q) == LastOwned(q) - FirstOwned(q) + 1
                    before[q \in 0 .. r] ==
                        IF q = 0 THEN 0 ELSE before[q - 1] + owned(q - 1)
                IN  /\ start_idxs[r] = start_idxs[0]
                    /\ start_idxs[r] = [i \in Ranks |-> StartIdx(i)]
                    /\ \A i \in 1 .. (local_rows(r) - 2) :
                          /\ SourceRow(r, i) = before[r] - FirstOwned(r) + i
                          /\ SourceRow(r, i) \in 1 .. (n - 2)
                          /\ \A j \in 1 .. (n - 2) :
                                fun_at_ok(SourceRow(r, i), j)

\* C27 witness: the last rank of a direct solve on MaxDirectP ranks, whose
\* offset is not zero, has evaluated a nonzero source term at a global row
\* that is not its local row and has written its updated row.
C27_Witness ==
    /\ mode = "direct" /\ mpi_size = MaxDirectP
    /\ pc[mpi_size - 1] = "barrier1"
    /\ local_rows(mpi_size - 1) > 2
    /\ SourceRow(mpi_size - 1, 1) > 1
    /\ SourceTerm(SourceRow(mpi_size - 1, 1), 1) /= 0
    /\ local_uh[mpi_size - 1] /= local_previous[mpi_size - 1]

\* C28 as stated: a rank of a distributed solve is inside the halo exchange
\* only on the CONTINUE branch, that is, when the reduce of the step has
\* yielded neither CONVERGED nor the iteration limit, so that the loop test
\* that follows the exchange admits another sweep.
C28_ExchangeOnlyOnContinue ==
    \A r \in Ranks :
        (mode \in DistributedModes /\ pc[r] \in ExchangePcs) =>
            /\ ~converged[r]
            /\ \E t \in Team : iteration[r][t] + 1 < max_iter

\* C28 amended: on P > 1 ranks the halo exchange follows the decision of
\* every outer step, whatever the reduce has yielded: a rank leaves the
\* reduce into the exchange, enters the exchange from nowhere else, and
\* goes on to the gather only from the loop test, once that test has
\* failed; after a failed test it starts no further sweep.
C28_ExchangeAfterEveryDecision ==
    [][\A r \in Ranks :
          (mode \in DistributedModes /\ mpi_size > 1) =>
              /\ (pc[r] = "allreduce" /\ pc'[r] /= "allreduce") =>
                    pc'[r] \in SendPcs
              /\ (pc[r] \notin ExchangePcs /\ pc'[r] \in ExchangePcs) =>
                    pc[r] = "allreduce"
              /\ (pc[r] /= "barrier2" /\ pc'[r] = "barrier2") =>
                    /\ pc[r] \in LoopPcs
                    /\ \A t \in Team : ~Continues(r, t)
              /\ (pc[r] \in LoopPcs /\ \A t \in Team : ~Continues(r, t)) =>
                    pc'[r] \notin {"barrier1"} \cup ExchangePcs]_vars

\* C28 witness: the reduce of the first step has yielded CONVERGED and rank
\* 0, which has sent its last owned row, waits inside the exchange for the
\* row of rank 1.
C28_Witness ==
    /\ mode = "mpi" /\ mpi_size > 1
    /\ pc[0] = "recv_next"
    /\ converged[0]
    /\ iter[0] = 1

\* C29: in every outer step of a distributed solve the reduce comes before
\* the exchange.  A rank inside the exchange of a step has completed the
\* reduce of that step, and so has every other rank: none is still inside
\* the reduce, and all hold the same residuals and the same decisions, one
\* per step.  A rank that has swept but not yet left the reduce holds in
\* its halo rows what it held when the sweep began: no row of the running
\* step has been written into them.
C29_ReduceBeforeExchange ==
    mode \in DistributedModes =>
        \A r \in Ranks :
            /\ pc[r] \in ExchangePcs =>
                  /\ Len(res_hist[r]) >= 1
                  /\ \A q \in Ranks :
                        /\ pc[q] /= "allreduce"
                        /\ res_hist[q] = res_hist[r]
                        /\ dec_hist[q] = dec_hist[r]
                        /\ Len(dec_hist[q]) = Len(res_hist[r])
            /\ pc[r] \in {"barrier1", "allreduce"} =>
                  /\ (mpi_size > 1 /\ r > 0) =>
                        RowAt(local_uh[r], 0) = RowAt(local_previous[r], 0)
                  /\ (mpi_size > 1 /\ r < mpi_size - 1) =>
                        RowAt(local_uh[r], (local_rows(r) - 1) * n)
                          = RowAt(local_previous[r], (local_rows(r) - 1) * n)
                  /\ \A q \in Ranks :
                        pc[q] \in RecvPcs =>
                            Len(res_hist[q]) = Len(res_hist[r])

\* C29 witness: of three ranks the last is still inside the exchange of the
\* first step, which did not converge, while the first has completed its
\* exchange and swept again; the reduce of the second step waits for all.
C29_Witness ==
    /\ mode = "mpi" /\ mpi_size = 3
    /\ pc[0] = "barrier1"
    /\ pc[2] \in RecvPcs
    /\ Len(res_hist[2]) = 1
    /\ ~converged[2]
    /\ res_hist[2][1] > 0

\* C30: in every iteration of the parallel region of solve_omp and
\* solve_hybrid the three phases do not overlap.  While a worker is in the
\* omp for, the copy has completed: no worker is before the barrier that
\* follows it, and u_prev is the iterate the team entered the iteration
\* with.  While a worker computes the residual, every worker has finished
\* its tile.  At most one worker writes u_prev in an iteration.  At every
\* moment of the sweep each cell a worker has updated holds the Jacobi
\* value computed from the iterate at the start of the sweep, and every
\* other cell still holds that iterate, so that the finished sweep is the
\* Jacobi sweep of that iterate.
C30_PhasesSeparated ==
    LET Sweeping == {"for", "end_for", "barrier_residual", "single_residual",
                     "deciding"}
        Updated == UNION { Tile(n, t) \ todo[t] : t \in Threads }
    IN  /\ (\E t \in Threads : tpc[t] = "for") =>
              /\ \A q \in Threads : tpc[q] \in {"for", "end_for"}
              /\ TeamPrev = sweep_start
        /\ (\E t \in Threads : tpc[t] = "deciding") =>
              /\ \A q \in Threads :
                    /\ todo[q] = {}
                    /\ tpc[q] \in {"single_residual", "deciding",
                                    "end_single_residual"}
              /\ TeamPrev = sweep_start
              /\ TeamU = JacobiSweep(sweep_start, n, SourceRow(0, 0))
        /\ Cardinality(prev_writers) <= 1
        /\ (\A t \in Threads : tpc[t] \in Sweeping) =>
              \A k \in DOMAIN TeamU :
                  TeamU[k] = IF k \in Updated
                             THEN JacobiCell(sweep_start, k, SourceRow(0, 0))
                             ELSE sweep_start[k]

\* C30 witness: in the second iteration on the grid of TeamN rows the first
\* worker has updated some cells of its tile and not yet all, the second
\* worker has finished its own and waits at the end of the omp for, and a
\* cell updated in this sweep lies beside one that is not yet updated.
C30_Witness ==
    /\ n = TeamN
    /\ Len(res_hist[0]) = 1
    /\ tpc[0] = "for" /\ tpc[1] = "end_for"
    /\ Tile(n, 1) /= {} /\ todo[1] = {}
    /\ todo[0] /= {} /\ todo[0] /= Tile(n, 0)
    /\ \E k \in Tile(n, 0) \ todo[0] :
          /\ k + 1 \in todo[0]
          /\ TeamU[k] /= sweep_start[k]
    /\ prev_writers /= {}

\* C31: the static schedule of the omp for gives every interior cell of a
\* field of any number of rows (the whole grid, or a strip of solve_hybrid)
\* to exactly one worker: the tiles of two workers share no cell and
\* together they are the cells of the loop nest.  In a sweep the cells two
\* workers have still to write are never the same, a worker writes cells of
\* its own tile only, and when the workers have left the omp for no cell of
\* any tile is left unwritten.
C31_DisjointTiles ==
    /\ \A rows \in 2 .. n :
          /\ \A t, q \in Threads :
                t /= q => Tile(rows, t) \cap Tile(rows, q) = {}
          /\ UNION { Tile(rows, t) : t \in Threads }
                = { i * n + j : i \in 1 .. (rows - 2), j \in 1 .. (n - 2) }
    /\ \A t, q \in Threads : t /= q => todo[t] \cap todo[q] = {}
    /\ \A t \in Threads : todo[t] \subseteq Tile(n, t)
    /\ (\A t \in Threads : tpc[t] \in {"end_for", "barrier_residual"}) =>
          /\ \A t \in Threads : todo[t] = {}
          /\ \A k \in UNION { Tile(n, t) : t \in Threads } :
                TeamU[k] = JacobiCell(TeamPrev, k, SourceRow(0, 0))

\* C31 witness: on the grid of TeamN rows both workers of solve_hybrid have
\* a tile, have written all of it in the first sweep and wait at the end of
\* the omp for; the cells have changed.
C31_Witness ==
    /\ mode = "hybrid" /\ n = TeamN
    /\ \A t \in Threads : tpc[t] = "end_for" /\ Tile(n, t) /= {}
    /\ res_hist[0] = <<>>
    /\ \A k \in UNION { Tile(n, t) : t \in Threads } : TeamU[k] /= TeamPrev[k]

\* C32: in the parallel region of solve_omp and solve_hybrid, converged
\* and iter change only in a step of the worker that executes the single
\* with the residual, and only that step changes a loop counter apart from
\* the ++iteration all workers make together.  While a worker is at the
\* loop test no worker is past the copy of that iteration, so all read the
\* value of converged the last single left.  When a worker has left the
\* loop every other worker has left it or is at its test, which fails as
\* well: none is inside the body, waiting at a barrier.  The counters of
\* two workers differ by at most one, and differ only when the loop ends:
\* converged is set, or no counter is below the limit at the next test.
C32_CooperativeCancellation ==
    /\ [](\A t, q \in Threads :
            /\ tpc[t] = "test" =>
                  tpc[q] \in {"test", "single_copy", "copying",
                              "end_single_copy", "out"}
            /\ tpc[t] = "out" =>
                  /\ tpc[q] \in {"test", "out"}
                  /\ ~Continues(0, q)
            /\ iteration[0][t] - iteration[0][q] <= 1
            /\ iteration[0][t] /= iteration[0][q] =>
                  \/ converged[0]
                  \/ \A w \in Threads :
                        iteration[0][w]
                          + (IF tpc[w] \in {"test", "out"} THEN 0 ELSE 1)
                            >= max_iter)
    /\ [][/\ (converged' /= converged \/ iter' /= iter) =>
               \E t \in Threads :
                   tpc[t] = "deciding" /\ tpc'[t] = "end_single_residual"
          /\ iteration' /= iteration =>
               \/ \E t \in Threads :
                     /\ tpc[t] = "deciding"
                     /\ \A q \in Threads \ {t} :
                           iteration'[0][q] = iteration[0][q]
               \/ \A t \in Threads :
                     /\ tpc[t] = "end_single_residual"
                     /\ iteration'[0][t] = iteration[0][t] + 1]_vars

\* C32 witness: the team has left the loop after one iteration that
\* converged, well before the limit; the worker that executed the single
\* has a counter one above the other's.
C32_Witness ==
    /\ \A t \in Threads : tpc[t] = "out"
    /\ converged[0] /\ iter[0] = 1 /\ max_iter > 1
    /\ \E t, q \in Threads : iteration[0][t] = 2 /\ iteration[0][q] = 1

\* C33 as stated: when a rank of the direct solve assembles its system, the
\* right-hand-side entry of the unknown at local cell (a+1, b+1) is the
\* source term plus, for each of its four neighbours outside the strip
\* interior, the current value of exactly that cell: (0, b+1) above the
\* first row, (local_rows-1, b+1) below the last, (a+1, 0) left of the
\* first column and (a+1, n-1) right of the last.
C33_RhsNeighbours ==
    \A r \in Ranks :
        (mode = "direct" /\ pc[r] \in LoopPcs /\ local_uh[r] /= <<>>) =>
            \A a \in 0 .. (working_rows(r) - 1) :
                \A b \in 0 .. (working_cols - 1) :
                    Rhs(r, a * working_cols + b)
                      = (IF a = 0 THEN local_uh[r][b + 1] ELSE 0)
                        + (IF a = working_rows(r) - 1
                           THEN local_uh[r][(local_rows(r) - 1) * n + b + 1]
                           ELSE 0)
                        + (IF b = 0 THEN local_uh[r][(a + 1) * n] ELSE 0)
                        + (IF b = working_cols - 1
                           THEN local_uh[r][(a + 1) * n + (n - 1)]
                           ELSE 0)
                        + SourceTerm(GlobalRow(r, a + 1), b + 1)

\* C34 as stated: the outer step of a rank of the direct solve writes the
\* unknown with index a*C + b of the solution of its local system to local
\* cell (a+1, b+1), for every 0 <= a < W and 0 <= b < C, and leaves every
\* other cell (halo rows, boundary rows and columns) as it was.
C34_WriteBack ==
    [][\A r \in Ranks :
          (mode = "direct" /\ pc[r] \in LoopPcs /\ pc'[r] = "barrier1") =>
              /\ \A a \in 0 .. (working_rows(r) - 1) :
                    \A b \in 0 .. (working_cols - 1) :
                        local_uh'[r][(a + 1) * n + (b + 1)]
                          = SolveLocal(r)[a * working_cols + b]
              /\ \A k \in DOMAIN local_uh[r] :
                    (k \div n \notin 1 .. working_rows(r)
                       \/ k % n \notin 1 .. working_cols) =>
                        local_uh'[r][k] = local_uh[r][k]]_vars

\* C35: the matrix a rank of the direct solve assembles has 4 on the
\* diagonal, -1 at the pairs of unknowns that are neighbours to the north,
\* south, east or west inside the strip (none between the last unknown of
\* a strip row and the first of the next) and 0 elsewhere, and it is
\* symmetric; for every unknown the -1 entries of its row and the values
\* added to its right-hand side are four together.
C35_LocalOperator ==
    \A r \in Ranks :
        (mode = "direct" /\ pc[r] = "loop") =>
            LET U == 0 .. (Unknowns(r) - 1)
                Row(p) == p \div working_cols
                Col(p) == p % working_cols
                Adjacent(p, q) ==
                    \/ Row(p) = Row(q) /\ Col(p) - Col(q) \in {-1, 1}
                    \/ Col(p) = Col(q) /\ Row(p) - Row(q) \in {-1, 1}
            IN  \A p \in U :
                    /\ \A q \in U :
                          /\ MatrixEntry(r, p, q)
                               = IF p = q THEN 4
                                 ELSE IF Adjacent(p, q) THEN -1 ELSE 0
                          /\ MatrixEntry(r, p, q) = MatrixEntry(r, q, p)
                    /\ Cardinality({ q \in U : MatrixEntry(r, p, q) = -1 })
                         + Len(RhsCells(r, p)) = 4

\* C35 witness: one rank is about to assemble the system of the four
\* unknowns of a grid of four rows: the first unknown is coupled with the
\* second and the third and takes two values into its right-hand side; the
\* second, which ends a strip row, is not coupled with the third.
C35_Witness ==
    /\ mode = "direct" /\ mpi_size = 1 /\ pc[0] = "loop"
    /\ Unknowns(0) = 4 /\ working_cols = 2
    /\ MatrixEntry(0, 0, 1) = -1 /\ MatrixEntry(0, 0, 2) = -1
    /\ MatrixEntry(0, 1, 2) = 0
    /\ Len(RhsCells(0, 0)) = 2

\* C36: a rank of the direct solve that has completed an outer step and its
\* exchange and goes on to the next step assembles its right-hand side from
\* the halo rows as the exchange has left them: every value it takes from a
\* halo row is the value the neighbour holds in its owned row after the
\* step just completed (a neighbour that has already solved again keeps
\* it in local_previous), and every other value is the rank's own current
\* one.
C36_HaloReadEveryStep ==
    \A r \in Ranks :
        (mode = "direct" /\ pc[r] = "body_end" /\ Continues(r, 0)) =>
            LET After(q) == IF pc[q] = "barrier1" THEN local_previous[q]
                                                 ELSE local_uh[q]
                Latest(c) ==
                    IF mpi_size > 1 /\ r > 0 /\ c \div n = 0
                    THEN After(r - 1)[(local_rows(r - 1) - 2) * n + (c % n)]
                    ELSE IF mpi_size > 1 /\ r < mpi_size - 1
                            /\ c \div n = local_rows(r) - 1
                         THEN After(r + 1)[n + (c % n)]
                         ELSE local_uh[r][c]
            IN  \A p \in 0 .. (Unknowns(r) - 1) :
                    LET cells == RhsCells(r, p)
                        Sum[k \in 0 .. Len(cells)] ==
                            IF k = 0 THEN 0 ELSE Sum[k - 1] + Latest(cells[k])
                    IN  Rhs(r, p)
                          = Sum[Len(cells)]
                            + SourceTerm(GlobalRow(r, 1 + (p \div working_cols)),
                                         1 + (p % working_cols))

\* C36 witness: rank 0 of a direct solve on two ranks goes on to its second
\* step; a cell of its bottom halo row that the assembly reads holds a
\* value received in the first exchange, which is not the one it held at
\* the first assembly.
C36_Witness ==
    /\ mode = "direct" /\ mpi_size = 2
    /\ pc[0] = "body_end" /\ Continues(0, 0)
    /\ Len(res_hist[0]) = 1
    /\ \E p \in 0 .. (Unknowns(0) - 1) :
          \E k \in 1 .. Len(RhsCells(0, p)) :
              LET c == RhsCells(0, p)[k]
              IN  /\ c \div n = local_rows(0) - 1
                  /\ local_uh[0][c] /= local_previous[0][c]

\* C37: solve_mpi refines the serial iteration.  With buffered sends, when
\* a rank has completed k outer steps (sweep, reduce and exchange), every
\* row it holds, owned or halo, equals the row of the same global index of
\* the k-th serial Jacobi iterate of the field the root scattered (the
\* initial field with the boundary applied, which the root keeps untouched
\* until the gather); a rank that has swept once more and not yet
\* exchanged holds the (k+1)-th iterate in its owned rows.
C37_RefinesSerial ==
    \A r \in Ranks :
        (mode = "mpi" /\ pc[r] \in {"body_end", "barrier1"}) =>
            LET k == Len(res_hist[r])
                Serial[m \in 0 .. (k + 1)] ==
                    IF m = 0 THEN uh[0]
                    ELSE SweepOver(Serial[m - 1], SerialCells(n), 0)
                Sweeps(i) ==
                    IF pc[r] = "barrier1"
                       /\ i >= FirstOwned(r) /\ i <= LastOwned(r)
                    THEN k + 1 ELSE k
            IN  \A i \in 0 .. (local_rows(r) - 1) :
                    RowAt(local_uh[r], i * n)
                      = RowAt(Serial[Sweeps(i)], GlobalRow(r, i) * n)

\* C37 witness: three ranks have each completed two outer steps of
\* solve_mpi on a grid of four rows, neither with a zero residual, so the
\* rows they hold are those of the second serial iterate and differ from
\* the scattered field.
C37_Witness ==
    /\ mode = "mpi" /\ n = 4 /\ mpi_size = 3
    /\ \A r \in Ranks : pc[r] = "body_end" /\ Len(res_hist[r]) = 2
    /\ res_hist[0][1] > 0 /\ res_hist[0][2] > 0
    /\ RowAt(local_uh[1], n) /= RowAt(uh[0], 2 * n)
    /\ RowAt(local_uh[1], 0) /= RowAt(uh[0], 1 * n)

(***************************************************************************)
(* C38.  Scatter/gather bounds: for every n >= 3 and every number of ranks *)
(* P >= 1, when the root has computed counts and start_idxs, every rank's  *)
(* slice [start_idxs[r], start_idxs[r] + counts[r]) lies inside the global *)
(* field [0, n*n), every start_idxs[r] is a non-negative multiple of n,    *)
(* and the slice of the last rank ends exactly at n*n.                     *)
(***************************************************************************)
C38_SlicesInsideField ==
    pc[0] = "bcast" =>
        /\ \A r \in Ranks :
              /\ start_idxs[0][r] >= 0
              /\ start_idxs[0][r] % n = 0
              /\ start_idxs[0][r] + counts[r] <= n * n
        /\ start_idxs[0][mpi_size - 1] + counts[mpi_size - 1] = n * n

\* C39 as stated: in the direct solve, for every rank, W = local_rows - 2
\* is not negative, every index at which the write-back reads the solution
\* vector x lies in [0, W*C), and every index at which the assembly reads
\* local_uh or the write-back writes it lies in [0, local_rows*n).
C39_IndicesInRange ==
    \A r \in Ranks :
        (mode = "direct" /\ pc[r] \in LoopPcs /\ local_uh[r] /= <<>>) =>
            /\ working_rows(r) >= 0
            /\ \A i \in 1 .. (local_rows(r) - 2) :
                  \A j \in 1 .. (n - 2) :
                      /\ SolutionIndex(i, j) \in 0 .. (Unknowns(r) - 1)
                      /\ i * n + j \in 0 .. (local_rows(r) * n - 1)
            /\ \A idx \in 0 .. (Unknowns(r) - 1) :
                  \A k \in 1 .. Len(RhsCells(r, idx)) :
                      RhsCells(r, idx)[k] \in 0 .. (local_rows(r) * n - 1)

\* C40: in a distributed solve (solve_mpi, solve_hybrid, solve_direct) the
\* global field u of every rank other than the root stays the field it was
\* given, from the call until the object is reset: no boundary is assigned
\* to it and the gather does not write it.  Of the object's members only
\* iter changes there, to the count the root holds too when both have
\* returned; the gathered result is in the root's u alone.
C40_NonRootFieldKept ==
    \A r \in Ranks \ {0} :
        (mode \in DistributedModes /\ pc[r] /= "idle") =>
            /\ uh[r] = initial_guess
            /\ (pc[r] = "done" /\ pc[0] = "done") => iter[r] = iter[0]

\* Three ranks have returned from a distributed solve that iterated: the
\* root's field has changed and differs from the fields of the others.
C40_Witness ==
    /\ mode \in DistributedModes /\ mpi_size = 3
    /\ \A r \in Ranks : pc[r] = "done" /\ iter[r] > 0
    /\ uh[0] /= initial_guess
    /\ uh[1] /= uh[0] /\ uh[2] /= uh[0]

====
